---- MODULE Spec2Model ----
(***************************************************************************)
(* Model of the Mazaj DJ agent: invokeDJAgent (the staged song resolution  *)
(* pipeline), the song catalog accessors of services/songSearch.js, the    *)
(* discovery and classification collaborators, and checkVibeMatch.         *)
(*                                                                         *)
(* Strings are sequences of one-character strings, so that toLowerCase,    *)
(* includes, trim and split are computed as JavaScript computes them.     *)
(* A JavaScript null/undefined value is the empty sequence None, a present *)
(* value x is Some(x) = <<x>>.  A null string is the empty string (the     *)
(* code tests strings only by truthiness), a null year is 0 (likewise).    *)
(***************************************************************************)
EXTENDS Integers, Sequences, FiniteSets, TLC

\* ------------------------------------------------------------------------
\* State variables
\* ------------------------------------------------------------------------
VARIABLES
    catalog,    \* the "SongCatalog" table: a sequence of rows, row i has id i
    run,        \* run[r]: the locals of party r's run of invokeDJAgent
    started,    \* the number of runs (or of HTTP requests) started so far
    db,         \* the tables "User", "Party", "PartyMember", "Song", "ChatMessage"
    http        \* http[c]: the locals of the route handler serving client c

\* ------------------------------------------------------------------------
\* Bounds of the model
\* ------------------------------------------------------------------------
MaxRuns == 2
MaxRequests == 3

\* ------------------------------------------------------------------------
\* JavaScript / SQL string primitives
\* ------------------------------------------------------------------------
None == <<>>
Some(x) == <<x>>
IsSome(o) == Len(o) > 0
Val(o) == o[1]

UpperChars == <<"A", "B", "E", "H", "K", "S", "Y">>
LowerChars == <<"a", "b", "e", "h", "k", "s", "y">>

LowerChar(c) ==
    IF \E i \in 1..Len(UpperChars) : UpperChars[i] = c
    THEN LowerChars[CHOOSE i \in 1..Len(UpperChars) : UpperChars[i] = c]
    ELSE c

toLowerCase(s) == [i \in 1..Len(s) |-> LowerChar(s[i])]

includes(s, sub) ==
    \E i \in 0..(Len(s) - Len(sub)) : SubSeq(s, i + 1, i + Len(sub)) = sub

startsWith(s, p) == Len(p) <= Len(s) /\ SubSeq(s, 1, Len(p)) = p

RECURSIVE trimStart(_)
trimStart(s) == IF s # <<>> /\ Head(s) = " " THEN trimStart(Tail(s)) ELSE s

RECURSIVE trimEnd(_)
trimEnd(s) ==
    IF s # <<>> /\ s[Len(s)] = " " THEN trimEnd(SubSeq(s, 1, Len(s) - 1)) ELSE s

trim(s) == trimEnd(trimStart(s))

\* s.split(/\s+/): the pieces between maximal runs of blanks; a leading or a
\* trailing run leaves an empty piece at that end.
RECURSIVE splitWS(_, _, _)
splitWS(s, cur, inGap) ==
    IF s = <<>> THEN <<cur>>
    ELSE IF Head(s) = " "
         THEN IF inGap THEN splitWS(Tail(s), cur, TRUE)
              ELSE <<cur>> \o splitWS(Tail(s), <<>>, TRUE)
         ELSE splitWS(Tail(s), Append(cur, Head(s)), FALSE)

split(s) == splitWS(s, <<>>, FALSE)

Range(q) == {q[i] : i \in 1..Len(q)}

\* SQL: LOWER(col) LIKE LOWER('%' || q || '%')
Like(col, q) == includes(toLowerCase(col), toLowerCase(q))

RECURSIVE Perms(_)
Perms(S) ==
    IF S = {} THEN {<<>>}
    ELSE UNION {{<<x>> \o p : p \in Perms(S \ {x})} : x \in S}

\* the first `n` elements of a sequence (Array.prototype.slice(0, n), LIMIT n)
Take(q, n) == SubSeq(q, 1, IF Len(q) < n THEN Len(q) ELSE n)

\* ------------------------------------------------------------------------
\* The strings of the model
\* ------------------------------------------------------------------------
Sun == <<"S", "u", "n">>
Bay == <<"B", "a", "y">>
Key == <<"K", "e", "y">>
He == <<"H", "e">>
space == <<" ">>
songKeyword == <<"s", "o", "n", "g">>
officialMusicVideo == <<"o", "f", "f", "i", "c", "i", "a", "l", " ",
                        "m", "u", "s", "i", "c", " ", "v", "i", "d", "e", "o">>
Sky == <<"S", "k", "y">>
Sea == <<"S", "e", "a">>
Hey == <<"H", "e", "y">>
Ade == <<"A", "d", "e">>
ade == <<"a", "d", "e">>
Bob == <<"B", "o", "b">>
sad == <<"s", "a", "d">>
happy == <<"h", "a", "p", "p", "y">>
energetic == <<"e", "n", "e", "r", "g", "e", "t", "i", "c">>

\* ------------------------------------------------------------------------
\* checkVibeMatch (services/songSearch.js)
\* ------------------------------------------------------------------------
\* a song: [id, title, artist, year, mood, emb]; id 0 is a song that is not a
\* catalog row; mood is None (null) or Some(sequence of mood strings); emb
\* tells whether the row has an embedding.
\* a rule set: None, or Some([blockedMoods, allowedMoods, allowedEras,
\* blockedArtists]) with each array None or Some(sequence of strings) and
\* allowedEras None or Some([min, max]), 0 standing for an absent bound.

\* vibeRules.blockedMoods.find(m => song.mood.includes(m.toLowerCase()))
BlockedMoodFails(song, rules) ==
    /\ IsSome(rules.blockedMoods) /\ IsSome(song.mood)
    /\ \E m \in Range(Val(rules.blockedMoods)) :
          toLowerCase(m) \in Range(Val(song.mood))

\* !vibeRules.allowedMoods.some(m => song.mood.includes(m.toLowerCase()))
AllowedMoodFails(song, rules) ==
    /\ IsSome(rules.allowedMoods) /\ Len(Val(rules.allowedMoods)) > 0
    /\ IsSome(song.mood)
    /\ ~\E m \in Range(Val(rules.allowedMoods)) :
          toLowerCase(m) \in Range(Val(song.mood))

\* EraMinFails with the comparison the wrong way round
EraMinFails_Inverted(song, rules) ==
    /\ IsSome(rules.allowedEras) /\ song.year # 0
    /\ Val(rules.allowedEras).min # 0
    /\ song.year > Val(rules.allowedEras).min

EraMinFails(song, rules) ==
    /\ IsSome(rules.allowedEras) /\ song.year # 0
    /\ Val(rules.allowedEras).min # 0
    /\ song.year < Val(rules.allowedEras).min

EraMaxFails(song, rules) ==
    /\ IsSome(rules.allowedEras) /\ song.year # 0
    /\ Val(rules.allowedEras).max # 0
    /\ song.year > Val(rules.allowedEras).max

BlockedArtistFails(song, rules) ==
    /\ IsSome(rules.blockedArtists) /\ Len(Val(rules.blockedArtists)) > 0
    /\ \E a \in Range(Val(rules.blockedArtists)) :
          includes(toLowerCase(song.artist), toLowerCase(a))

\* checkVibeMatch that denies when no rule set is given
checkVibeMatch_DenyByDefault(song, vibeRules) ==
    IF ~IsSome(vibeRules) THEN [matches |-> FALSE, reason |-> "No rules set"]
    ELSE IF BlockedMoodFails(song, Val(vibeRules))
    THEN [matches |-> FALSE, reason |-> "Song mood is not allowed for this vibe"]
    ELSE IF AllowedMoodFails(song, Val(vibeRules))
    THEN [matches |-> FALSE, reason |-> "Song doesn't match the required mood"]
    ELSE IF EraMinFails(song, Val(vibeRules))
    THEN [matches |-> FALSE, reason |-> "Song is from year, but party requires min+"]
    ELSE IF EraMaxFails(song, Val(vibeRules))
    THEN [matches |-> FALSE, reason |-> "Song is from year, but party is for pre-max"]
    ELSE IF BlockedArtistFails(song, Val(vibeRules))
    THEN [matches |-> FALSE, reason |-> "Artist is blocked for this party"]
    ELSE [matches |-> TRUE, reason |-> "Song matches the vibe!"]

\* checkVibeMatch with the blocked artists checked before the moods
checkVibeMatch_ArtistFirst(song, vibeRules) ==
    IF ~IsSome(vibeRules) THEN [matches |-> TRUE, reason |-> "No rules set"]
    ELSE IF BlockedArtistFails(song, Val(vibeRules))
    THEN [matches |-> FALSE, reason |-> "Artist is blocked for this party"]
    ELSE IF BlockedMoodFails(song, Val(vibeRules))
    THEN [matches |-> FALSE, reason |-> "Song mood is not allowed for this vibe"]
    ELSE IF AllowedMoodFails(song, Val(vibeRules))
    THEN [matches |-> FALSE, reason |-> "Song doesn't match the required mood"]
    ELSE IF EraMinFails(song, Val(vibeRules))
    THEN [matches |-> FALSE, reason |-> "Song is from year, but party requires min+"]
    ELSE IF EraMaxFails(song, Val(vibeRules))
    THEN [matches |-> FALSE, reason |-> "Song is from year, but party is for pre-max"]
    ELSE [matches |-> TRUE, reason |-> "Song matches the vibe!"]

\* checkVibeMatch that lets every second request through whatever the song
checkVibeMatch_Alternating(song, vibeRules) ==
    IF ~IsSome(vibeRules) \/ started % 2 = 0
    THEN [matches |-> TRUE, reason |-> "No rules set"]
    ELSE IF BlockedMoodFails(song, Val(vibeRules))
    THEN [matches |-> FALSE, reason |-> "Song mood is not allowed for this vibe"]
    ELSE IF AllowedMoodFails(song, Val(vibeRules))
    THEN [matches |-> FALSE, reason |-> "Song doesn't match the required mood"]
    ELSE IF EraMinFails(song, Val(vibeRules))
    THEN [matches |-> FALSE, reason |-> "Song is from year, but party requires min+"]
    ELSE IF EraMaxFails(song, Val(vibeRules))
    THEN [matches |-> FALSE, reason |-> "Song is from year, but party is for pre-max"]
    ELSE IF BlockedArtistFails(song, Val(vibeRules))
    THEN [matches |-> FALSE, reason |-> "Artist is blocked for this party"]
    ELSE [matches |-> TRUE, reason |-> "Song matches the vibe!"]

\* checkVibeMatch that also refuses explicit songs where the rule set does
\* not allow them
checkVibeMatch_Explicit(song, vibeRules) ==
    IF ~IsSome(vibeRules) THEN [matches |-> TRUE, reason |-> "No rules set"]
    ELSE IF /\ "explicit" \in DOMAIN song /\ "explicitAllowed" \in DOMAIN Val(vibeRules)
            /\ song.explicit /\ ~Val(vibeRules).explicitAllowed
    THEN [matches |-> FALSE, reason |-> "Explicit songs are not allowed"]
    ELSE IF BlockedMoodFails(song, Val(vibeRules))
    THEN [matches |-> FALSE, reason |-> "Song mood is not allowed for this vibe"]
    ELSE IF AllowedMoodFails(song, Val(vibeRules))
    THEN [matches |-> FALSE, reason |-> "Song doesn't match the required mood"]
    ELSE IF EraMinFails(song, Val(vibeRules))
    THEN [matches |-> FALSE, reason |-> "Song is from year, but party requires min+"]
    ELSE IF EraMaxFails(song, Val(vibeRules))
    THEN [matches |-> FALSE, reason |-> "Song is from year, but party is for pre-max"]
    ELSE IF BlockedArtistFails(song, Val(vibeRules))
    THEN [matches |-> FALSE, reason |-> "Artist is blocked for this party"]
    ELSE [matches |-> TRUE, reason |-> "Song matches the vibe!"]

checkVibeMatch(song, vibeRules) ==
    IF ~IsSome(vibeRules) THEN [matches |-> TRUE, reason |-> "No rules set"]
    ELSE IF BlockedMoodFails(song, Val(vibeRules))
    THEN [matches |-> FALSE, reason |-> "Song mood is not allowed for this vibe"]
    ELSE IF AllowedMoodFails(song, Val(vibeRules))
    THEN [matches |-> FALSE, reason |-> "Song doesn't match the required mood"]
    ELSE IF EraMinFails(song, Val(vibeRules))
    THEN [matches |-> FALSE, reason |-> "Song is from year, but party requires min+"]
    ELSE IF EraMaxFails(song, Val(vibeRules))
    THEN [matches |-> FALSE, reason |-> "Song is from year, but party is for pre-max"]
    ELSE IF BlockedArtistFails(song, Val(vibeRules))
    THEN [matches |-> FALSE, reason |-> "Artist is blocked for this party"]
    ELSE [matches |-> TRUE, reason |-> "Song matches the vibe!"]

\* ------------------------------------------------------------------------
\* The data of the model
\* ------------------------------------------------------------------------
Runs == {"p1", "p2"}

Row(id, title, artist, year, mood, emb) ==
    [id |-> id, title |-> title, artist |-> artist, year |-> year,
     mood |-> mood, emb |-> emb]

\* pre-seeded catalogs: one row per (title, artist); a pre-seeded row may
\* lack its embedding and its mood column is nullable
SeedCatalogs ==
    { <<>>,
      <<Row(1, Sun, Ade, 2020, Some(<<sad>>), TRUE)>>,
      <<Row(1, Sun, Ade, 1975, Some(<<sad>>), TRUE),
        Row(2, Sky, Ade, 2020, Some(<<sad>>), TRUE),
        Row(3, Sun, Bob, 0, None, TRUE)>>,
      <<Row(1, Sun, Ade, 2020, Some(<<sad>>), TRUE),
        Row(2, Sky, Ade, 2005, Some(<<sad, happy>>), FALSE),
        Row(3, Sea, Ade, 0, None, FALSE),
        Row(4, Hey, Ade, 2021, None, FALSE)>>,
      <<Row(1, Sun, Bob, 0, None, FALSE),
        Row(2, Sky, Bob, 0, None, FALSE),
        Row(3, Sea, Bob, 0, None, FALSE),
        Row(4, Hey, Bob, 0, None, FALSE),
        Row(5, Bay, Bob, 0, None, FALSE),
        Row(6, Key, Bob, 0, None, FALSE)>> }

Request(isRequest, title, artist, searchVariations) ==
    [isRequest |-> isRequest, title |-> title, artist |-> artist,
     searchVariations |-> searchVariations]

NotRequest == Request(FALSE, <<>>, <<>>, None)

\* what the extraction model may answer
ParsedRequests ==
    { NotRequest,
      Request(TRUE, Sun, ade, Some(<<>>)),
      Request(TRUE, Sky, <<>>, Some(<<Sun>>)),
      Request(TRUE, Hey, Bob, None),
      Request(TRUE, He, <<>>, None),
      Request(TRUE, <<>>, ade, Some(<<Sun>>)),
      Request(TRUE, <<>>, Bob, None),
      Request(TRUE, <<>>, <<>>, Some(<<Sun>>)),
      Request(TRUE, <<>>, <<>>, None) }

Rules(blockedMoods, allowedMoods, allowedEras, blockedArtists) ==
    Some([blockedMoods |-> blockedMoods, allowedMoods |-> allowedMoods,
          allowedEras |-> allowedEras, blockedArtists |-> blockedArtists])

Era(min, max) == Some([min |-> min, max |-> max])

\* the rule sets a party may carry (Party.vibeRules)
RuleSets ==
    { None,
      Rules(Some(<<>>), None, None, Some(<<>>)),
      Rules(Some(<<>>), Some(<<sad>>), Era(2000, 0), None),
      Rules(Some(<<sad>>), Some(<<happy, energetic>>), Era(1970, 2024), Some(<<Bob>>)) }

\* what searchYouTube may return: {title, artist, year}
YouTubeResults ==
    { [title |-> Sun, artist |-> Ade, year |-> 1975] }

\* the mood arrays the classification model may answer
AnalysisMoods == { <<sad>> }

\* analyzeSong's fallback analysis
FallbackMood == <<energetic>>


\* ------------------------------------------------------------------------
\* The limits of invokeDJAgent's queries and lists
\* ------------------------------------------------------------------------
ArtistPoolLimit == 20
MaxOptions == 5
SemanticLimit == 10
TextLimit == 5
SuggestPoolLimit == 20
MoodPoolLimit == 20
MaxSuggestions == 3

\* ------------------------------------------------------------------------
\* Catalog accessors (services/songSearch.js): the rows a query selects
\* ------------------------------------------------------------------------
\* every sequence a query over the rows `ids` may return under LIMIT `limit`:
\* the SQL states no order (or a random, or a similarity order the model does
\* not compute), so any `limit` of the selected rows come back in any order
Results(cat, ids, limit) == {[i \in DOMAIN q |-> cat[q[i]]] : q \in {Take(p, limit) : p \in Perms(ids)}}

\* the artist compared for equality, not with LIKE
findExactSongRows_ArtistEqual(cat, title, artist) ==
    {i \in DOMAIN cat :
        /\ toLowerCase(cat[i].title) = toLowerCase(trim(title))
        /\ cat[i].artist = trim(artist)}

findExactSongRows(cat, title, artist) ==
    {i \in DOMAIN cat :
        /\ toLowerCase(cat[i].title) = toLowerCase(trim(title))
        /\ Like(cat[i].artist, trim(artist))}

searchSongsByTextRows(cat, query) ==
    {i \in DOMAIN cat : Like(cat[i].title, query) \/ Like(cat[i].artist, query)}

searchSongsBySemanticRows(cat) == {i \in DOMAIN cat : cat[i].emb}

getSongsByMoodRows(cat, moods) ==
    {i \in DOMAIN cat :
        IsSome(cat[i].mood) /\ Range(Val(cat[i].mood)) \cap Range(moods) # {}}

\* what a collaborator call comes to: its answer; or a failure caught inside
\* the collaborator, which then answers its empty value; or an error thrown
\* to the caller
Ok(value) == [threw |-> FALSE, failed |-> FALSE, value |-> value]
Caught(value) == [threw |-> FALSE, failed |-> TRUE, value |-> value]
Thrown == [threw |-> TRUE, failed |-> TRUE, value |-> None]

searchSongsByText(cat, query, limit) ==
    {Ok(rows) : rows \in Results(cat, searchSongsByTextRows(cat, query), limit)}
    \cup {Caught(<<>>)}

\* findExactSong without its try/catch: a failed query throws to the caller
findExactSong_Throws(cat, title, artist) ==
    LET rows == findExactSongRows(cat, title, artist)
    IN  (IF rows = {} THEN {Ok(None)} ELSE {Ok(Some(cat[i])) : i \in rows})
        \cup {Thrown}

findExactSong(cat, title, artist) ==
    LET rows == findExactSongRows(cat, title, artist)
    IN  (IF rows = {} THEN {Ok(None)} ELSE {Ok(Some(cat[i])) : i \in rows})
        \cup {Caught(None)}

searchSongsBySemantic(cat, query, limit) ==
    {Ok(rows) : rows \in Results(cat, searchSongsBySemanticRows(cat), limit)}
    \cup {Caught(<<>>)}

getSongsByMood(cat, moods, limit) ==
    {Ok(rows) : rows \in Results(cat, getSongsByMoodRows(cat, moods), limit)}
    \cup {Caught(<<>>)}

\* the columns a unique constraint of "SongCatalog" covers: the primary key
ConflictKey(row) == row.id

\* an insert that overwrites the row of the same title and artist
InsertSongCatalog_Upsert(cat, song) ==
    IF \E i \in DOMAIN cat : cat[i].title = song.title /\ cat[i].artist = song.artist
    THEN [i \in DOMAIN cat |->
            IF cat[i].title = song.title /\ cat[i].artist = song.artist
            THEN Row(cat[i].id, song.title, song.artist, song.year, song.mood, TRUE)
            ELSE cat[i]]
    ELSE Append(cat, Row(Len(cat) + 1, song.title, song.artist, song.year,
                         song.mood, TRUE))

\* INSERT ... ON CONFLICT DO NOTHING with id = gen_random_uuid()
InsertSongCatalog(cat, song) ==
    LET row == Row(Len(cat) + 1, song.title, song.artist, song.year,
                   song.mood, TRUE)
    IN  IF \E i \in DOMAIN cat : ConflictKey(cat[i]) = ConflictKey(row)
        THEN cat
        ELSE Append(cat, row)

\* ------------------------------------------------------------------------
\* invokeDJAgent: validation of search hits
\* ------------------------------------------------------------------------
LongWords(words) ==
    LET Long(w) == Len(w) > 2 IN SelectSeq(words, Long)

SemanticTitleValid_Any(parsed, result) == TRUE

\* Stage C, the semantic hit `result` against the parsed request
SemanticTitleValid(parsed, result) ==
    LET foundTitle == toLowerCase(result.title)
        requestedTitle == toLowerCase(parsed.title)
        titleWords == LongWords(split(requestedTitle))
        Matching(w) == includes(foundTitle, w)
        matchingWords == SelectSeq(titleWords, Matching)
    IN  parsed.title # <<>> => ~(2 * Len(matchingWords) < Len(titleWords))

SemanticArtistValid(parsed, result) ==
    LET foundArtist == toLowerCase(result.artist)
        requestedArtist == toLowerCase(parsed.artist)
    IN  parsed.artist # <<>> =>
            \/ includes(foundArtist, requestedArtist)
            \/ includes(requestedArtist, foundArtist)
            \/ \E w \in Range(split(requestedArtist)) :
                  includes(foundArtist, w) /\ Len(w) > 2

SemanticValid(parsed, result) ==
    SemanticTitleValid(parsed, result) /\ SemanticArtistValid(parsed, result)

\* Stage D, the text hit `s` of `query` against the parsed request
TextTitleMatch(query, s) ==
    LET foundTitle == trim(toLowerCase(s.title))
        queryLower == trim(toLowerCase(query))
    IN  \/ foundTitle = queryLower
        \/ startsWith(foundTitle, queryLower \o <<" ">>)
        \/ startsWith(foundTitle, queryLower \o <<"(">>)
        \/ /\ includes(queryLower, foundTitle)
           /\ 10 * Len(foundTitle) > 7 * Len(queryLower)

\* whole-string containment only, no word-by-word comparison
TextArtistMatch_Contained(parsed, s) ==
    \/ parsed.artist = <<>>
    \/ includes(toLowerCase(s.artist), toLowerCase(parsed.artist))
    \/ includes(toLowerCase(parsed.artist), toLowerCase(s.artist))

TextArtistMatch(parsed, s) ==
    LET requestedArtist == toLowerCase(parsed.artist)
        foundArtist == toLowerCase(s.artist)
    IN  \/ parsed.artist = <<>>
        \/ includes(foundArtist, requestedArtist)
        \/ includes(requestedArtist, foundArtist)
        \/ \E rw \in Range(split(requestedArtist)) :
              \E fw \in Range(split(foundArtist)) :
                  includes(fw, rw) \/ includes(rw, fw)

TextValid(parsed, query, s) == TextTitleMatch(query, s) /\ TextArtistMatch(parsed, s)

\* the pool taken as it is, no entry checked
VibeMatching_Unfiltered(pool, vibeRules) == pool

\* the entries of a pool whose moods pass, era and artist not looked at
VibeMatching_MoodsOnly(pool, vibeRules) ==
    LET Pass(s) == \/ ~IsSome(vibeRules)
                   \/ /\ ~BlockedMoodFails(s, Val(vibeRules))
                      /\ ~AllowedMoodFails(s, Val(vibeRules))
    IN  SelectSeq(pool, Pass)

\* the passing entries of a pool, in order (the filter loops of the
\* artist-only stage and of the suggestion finder)
VibeMatching(pool, vibeRules) ==
    LET Pass(s) == checkVibeMatch(s, vibeRules).matches IN SelectSeq(pool, Pass)


\* ------------------------------------------------------------------------
\* The database behind the routes, and the requests in flight
\* ------------------------------------------------------------------------
\* tables are sets of rows; seq counts the ids handed out (gen_random_uuid())
EmptyDb ==
    [User |-> {}, Party |-> {}, PartyMember |-> {}, Song |-> {},
     ChatMessage |-> {}, seq |-> 0]

Clients == {"c1", "c2"}

\* http[c].pc names the query the handler is about to make; id, userId,
\* songId and arg are what the request carries (and what the handler has
\* computed),
\* status the HTTP status of the response sent (0: none yet), fault tells
\* that a query of this request failed for a reason outside the schema
IdleHttp ==
    [pc |-> "idle", id |-> "none", userId |-> "none", songId |-> 0,
     arg |-> "none", status |-> 0, fault |-> FALSE]

\* res.status(status).json(...): the handler is done
Answer(h, status) == [h EXCEPT !.pc = "idle", !.status = status]

\* a query rejected by the driver: the handler's catch block answers 500
Fault(h) == [h EXCEPT !.pc = "idle", !.status = 500, !.fault = TRUE]

\* a request of client c begins
NewRequest(pc, id, userId, arg) ==
    [IdleHttp EXCEPT !.pc = pc, !.id = id, !.userId = userId, !.arg = arg]

\* ------------------------------------------------------------------------
\* State
\* ------------------------------------------------------------------------
vars == <<catalog, run, started, db, http>>

\* run[r].pc names the collaborator call the run is about to make; log is the
\* calls made so far, lastFailed tells that the last of them failed,
\* embeddingFailed that the embedding call of addSongToCatalog failed,
\* catalogSeen the size of the catalog when discovery was called,
\* inserted the number of
\* rows the run has added to the catalog, foundBy the stage that produced
\* `song`, outcome the branch of invokeDJAgent the run has taken, extraction
\* what became of the extraction reply inside parseSongRequest, searchQuery
\* the query built for searchYouTube, hits what each semantic query of the
\* run returned: the rows before and the rows after the accepted one
IdleRun ==
    [pc |-> "idle", parsed |-> NotRequest, vibeRules |-> None, song |-> None,
     source |-> "catalog", qi |-> 0, yt |-> None, analysisFailed |-> FALSE,
     embeddingFailed |-> FALSE, catalogSeen |-> 0,
     vibeCheck |-> None, suggestions |-> <<>>, log |-> <<>>, lastFailed |-> FALSE,
     inserted |-> 0, foundBy |-> "none", outcome |-> "none", result |-> None,
     extraction |-> "none", searchQuery |-> <<>>, hits |-> <<>>]

Init ==
    /\ catalog \in SeedCatalogs
    /\ run = [r \in Runs |-> IdleRun]
    /\ started = 0
    /\ db = EmptyDb
    /\ http = [c \in Clients |-> IdleHttp]

\* ------------------------------------------------------------------------
\* invokeDJAgent: the synchronous code between two collaborator calls
\* ------------------------------------------------------------------------
searchQueries(parsed) ==
    <<parsed.title>> \o
    (IF IsSome(parsed.searchVariations) THEN Val(parsed.searchVariations) ELSE <<>>)

\* the first non-empty query at or after index `from`, 0 if there is none
\* (`if (!query) continue`)
NextQuery(parsed, from) ==
    LET q == searchQueries(parsed)
        I == {i \in from..Len(q) : q[i] # <<>>}
    IN  IF I = {} THEN 0 ELSE CHOOSE i \in I : \A j \in I : i <= j

Called(s, what, outcome) ==
    [s EXCEPT !.log = Append(@, what), !.lastFailed = outcome.failed]

\* a catch block that throws the error on: the run ends without a result
Catch_Rethrows(s) == [s EXCEPT !.pc = "done", !.result = None]

\* invokeDJAgent's catch block
Catch(s) ==
    [s EXCEPT !.pc = "done",
              !.result = Some([type |-> "CHAT", song |-> None,
                               suggestion |-> None, options |-> <<>>])]

Return(s, type, song, suggestion, options) ==
    [s EXCEPT !.pc = "done",
              !.result = Some([type |-> type, song |-> song,
                               suggestion |-> suggestion, options |-> options])]

\* the song object of an AI_ACCEPT result
Accepted(song) ==
    Some([title |-> song.title, artist |-> song.artist, mood |-> song.mood,
          year |-> song.year])

\* the mood pool asked whenever the rule set has allowedMoods
AfterArtistPool_AlwaysMood(s) ==
    IF IsSome(s.vibeRules) /\ IsSome(Val(s.vibeRules).allowedMoods)
    THEN [s EXCEPT !.pc = "S_getSongsByMood"]
    ELSE [s EXCEPT !.pc = "respondDeny"]

\* after the same-artist pool: the mood pool is asked only when no
\* suggestion was found and the rule set has allowedMoods
AfterArtistPool(s) ==
    IF /\ Len(s.suggestions) = 0
       /\ IsSome(s.vibeRules) /\ IsSome(Val(s.vibeRules).allowedMoods)
    THEN [s EXCEPT !.pc = "S_getSongsByMood"]
    ELSE [s EXCEPT !.pc = "respondDeny"]

\* Validate, taking a discovery hit as already checked
Validate_TrustsDiscovery(s) ==
    LET vibeCheck == checkVibeMatch(Val(s.song), s.vibeRules)
        s1 == [s EXCEPT !.vibeCheck = Some(vibeCheck),
                        !.log = Append(@, "checkVibeMatch")]
    IN  IF vibeCheck.matches \/ s.source = "youtube"
        THEN [s1 EXCEPT !.pc = "respondAccept", !.outcome = "Resolved"]
        ELSE IF s.parsed.artist # <<>>
             THEN [s1 EXCEPT !.pc = "S_searchSongsByText", !.outcome = "Rejected"]
             ELSE AfterArtistPool([s1 EXCEPT !.outcome = "Rejected"])

\* Validate looking for alternatives whatever the check says
Validate_SuggestsOnPass(s) ==
    LET vibeCheck == checkVibeMatch(Val(s.song), s.vibeRules)
        s1 == [s EXCEPT !.vibeCheck = Some(vibeCheck),
                        !.log = Append(@, "checkVibeMatch")]
    IN  IF s.parsed.artist # <<>>
        THEN [s1 EXCEPT !.pc = "S_searchSongsByText",
                        !.outcome = IF vibeCheck.matches THEN "Resolved" ELSE "Rejected"]
        ELSE AfterArtistPool([s1 EXCEPT !.outcome =
                                 IF vibeCheck.matches THEN "Resolved" ELSE "Rejected"])

\* Step 5: checkVibeMatch on the candidate, then Step 6 or the suggestions
Validate(s) ==
    LET vibeCheck == checkVibeMatch(Val(s.song), s.vibeRules)
        s1 == [s EXCEPT !.vibeCheck = Some(vibeCheck),
                        !.log = Append(@, "checkVibeMatch")]
    IN  IF vibeCheck.matches
        THEN [s1 EXCEPT !.pc = "respondAccept", !.outcome = "Resolved"]
        ELSE IF s.parsed.artist # <<>>
             THEN [s1 EXCEPT !.pc = "S_searchSongsByText", !.outcome = "Rejected"]
             ELSE AfterArtistPool([s1 EXCEPT !.outcome = "Rejected"])

\* Step 4 looking for alternatives although no song was found
Step4_SuggestsOnMiss(s) ==
    IF IsSome(s.song) THEN Validate(s)
    ELSE AfterArtistPool([s EXCEPT !.outcome = "NotFound"])

\* Step 4: no song found, or on to Step 5
Step4(s) ==
    IF IsSome(s.song) THEN Validate(s)
    ELSE [s EXCEPT !.pc = "respondNotFound", !.outcome = "NotFound"]

\* the artist-only query without the mood keyword
ArtistMoodQuery_NoMood(s) == s.parsed.artist \o space \o songKeyword

\* the artist-only discovery query: `${parsed.artist} ${moodKeyword} song`,
\* moodKeyword being vibeRules?.allowedMoods?.[0] || ''
ArtistMoodQuery(s) ==
    LET moodKeyword ==
            IF /\ IsSome(s.vibeRules) /\ IsSome(Val(s.vibeRules).allowedMoods)
               /\ Len(Val(Val(s.vibeRules).allowedMoods)) > 0
            THEN Val(Val(s.vibeRules).allowedMoods)[1]
            ELSE <<>>
    IN  s.parsed.artist \o space \o moodKeyword \o space \o songKeyword

\* the Stage E query; the empty string stands for null
DiscoveryQuery(parsed) ==
    IF parsed.title # <<>> /\ parsed.artist # <<>>
    THEN parsed.title \o space \o parsed.artist
    ELSE IF parsed.title # <<>> THEN parsed.title
    ELSE IF parsed.artist # <<>> THEN parsed.artist \o space \o officialMusicVideo
    ELSE <<>>

\* EnterE without the `if (!song)` guard of the discovery stage
EnterE_Unguarded(s) ==
    IF DiscoveryQuery(s.parsed) # <<>>
    THEN [s EXCEPT !.pc = "E_searchYouTube", !.searchQuery = DiscoveryQuery(s.parsed)]
    ELSE Step4(s)

\* Step 3 (Stage E): YouTube is asked when no song was found and a search
\* query can be built from the title or the artist
EnterE(s) ==
    IF ~IsSome(s.song) /\ DiscoveryQuery(s.parsed) # <<>>
    THEN [s EXCEPT !.pc = "E_searchYouTube", !.searchQuery = DiscoveryQuery(s.parsed)]
    ELSE Step4(s)

\* Stage D: the text fallback runs over the non-empty queries when no song
\* was found
EnterD(s) ==
    IF ~IsSome(s.song) /\ NextQuery(s.parsed, 1) # 0
    THEN [s EXCEPT !.pc = "D_searchSongsByText", !.qi = NextQuery(s.parsed, 1)]
    ELSE EnterE(s)

\* EnterC without the `if (!song)` guard of the semantic stage
EnterC_Unguarded(s) ==
    IF NextQuery(s.parsed, 1) # 0
    THEN [s EXCEPT !.pc = "C_searchSongsBySemantic", !.qi = NextQuery(s.parsed, 1)]
    ELSE EnterD(s)

\* Stage C: the semantic search runs over the non-empty queries when no song
\* was found
EnterC(s) ==
    IF ~IsSome(s.song) /\ NextQuery(s.parsed, 1) # 0
    THEN [s EXCEPT !.pc = "C_searchSongsBySemantic", !.qi = NextQuery(s.parsed, 1)]
    ELSE EnterD(s)

\* Step 2 (Stage A): the exact lookup needs both the title and the artist
EnterA(s) ==
    IF s.parsed.artist # <<>> /\ s.parsed.title # <<>>
    THEN [s EXCEPT !.pc = "A_findExactSong"]
    ELSE EnterC(s)

\* after parseSongRequest
AfterParse(s) ==
    IF ~s.parsed.isRequest
    THEN [s EXCEPT !.pc = "respondChat", !.outcome = "NotARequest"]
    ELSE IF s.parsed.title = <<>> /\ s.parsed.artist # <<>>
         THEN [s EXCEPT !.pc = "B_searchSongsByText"]
         ELSE EnterA(s)

\* what a scan of `results` that stopped at `song` went past: the rows before
\* the accepted one, and the rows after it (all of them when none was
\* accepted)
Scanned(results, song) ==
    LET at == IF IsSome(song)
              THEN CHOOSE i \in DOMAIN results : results[i] = Val(song)
              ELSE Len(results) + 1
    IN  [before |-> {results[i] : i \in 1..(at - 1)},
         after |-> {results[i] : i \in (at + 1)..Len(results)}]

\* the last valid element instead of the first
FirstValid_Last(results, I) ==
    IF I = {} THEN None ELSE Some(results[CHOOSE i \in I : \A j \in I : i >= j])

\* the first element of `results` among the valid indices I, None if none
FirstValid(results, I) ==
    IF I = {} THEN None ELSE Some(results[CHOOSE i \in I : \A j \in I : i <= j])

\* the song object built from a discovery result and its analysis
TempSong(yt, mood) ==
    [id |-> 0, title |-> yt.title, artist |-> yt.artist, year |-> yt.year,
     mood |-> Some(mood), emb |-> FALSE]


\* ------------------------------------------------------------------------
\* Discovery, classification, enrichment and reply collaborators
\* ------------------------------------------------------------------------
\* searchYouTube: a normalized result, or null (nothing found, or an error)
searchYouTube ==
    {Ok(None)} \cup {Ok(Some(y)) : y \in YouTubeResults} \cup {Caught(None)}

\* analyzeSong: the analysis' mood array; the fallback analysis on an error
analyzeSong ==
    {Ok(mood) : mood \in AnalysisMoods} \cup {Caught(FallbackMood)}

\* addSongToCatalog, its embedding call: the embedding, or an error caught
\* by addSongToCatalog, which then inserts nothing and answers null
embeddingsCreate == {Ok(TRUE), Caught(FALSE)}

\* addSongToCatalog, its INSERT: the catalog it leaves
insertQuery(cat, song) == {Ok(InsertSongCatalog(cat, song)), Caught(cat)}

\* generateResponse does not catch the errors of the reply model
generateResponse == {Ok(None), Thrown}

\* What JSON.parse gives for the extraction reply: null, or an object; an
\* object without isRequest reads as isRequest undefined, which the code
\* tests only by truthiness, so obj.isRequest is FALSE for it.  "garbage" is
\* text that is not JSON.
Json(kind, hasIsRequest, obj) == [kind |-> kind, hasIsRequest |-> hasIsRequest, obj |-> obj]

JsonTexts ==
    {Json("object", TRUE, parsed) : parsed \in ParsedRequests}
    \cup {Json("object", FALSE, Request(FALSE, Sun, ade, None)),
          Json("null", FALSE, NotRequest),
          Json("garbage", FALSE, NotRequest)}

\* response.content: the text, bare ("none"), inside a pair of ``` markers
\* ("closed"), or after a single ``` marker ("open")
Replies == [fence : {"none", "closed", "open"}, text : JsonTexts]

\* the extraction call llm.invoke: a reply, or an error
llmInvoke ==
    {Ok(reply) : reply \in Replies}
    \cup {[threw |-> TRUE, failed |-> TRUE,
           value |-> [fence |-> "none", text |-> Json("garbage", FALSE, NotRequest)]]}

\* jsonStr after the code-fence regex: the inside of a closed fence,
\* otherwise the reply as it is
stripFence(reply) ==
    IF reply.fence = "closed" THEN [reply EXCEPT !.fence = "none"] ELSE reply

\* JSON.parse throws on text that is not JSON, a lone ``` marker included
JSONparseThrows(jsonStr) == jsonStr.fence # "none" \/ jsonStr.text.kind = "garbage"

\* parseSongRequest without its try/catch: the error reaches invokeDJAgent
parseSongRequest_Throws(extraction) ==
    IF extraction.threw \/ JSONparseThrows(stripFence(extraction.value))
    THEN [threw |-> TRUE, failed |-> TRUE, value |-> Json("object", TRUE, NotRequest)]
    ELSE Ok(stripFence(extraction.value).text)

\* parseSongRequest: the decoded reply; {isRequest: false} when the
\* extraction call or the decoding throws
parseSongRequest(extraction) ==
    IF extraction.threw \/ JSONparseThrows(stripFence(extraction.value))
    THEN Caught(Json("object", TRUE, NotRequest))
    ELSE Ok(stripFence(extraction.value).text)

\* what became of the extraction inside parseSongRequest
Extraction(extraction) ==
    IF extraction.threw THEN "failed"
    ELSE IF JSONparseThrows(stripFence(extraction.value)) THEN "undecodable"
    ELSE IF extraction.value.text.kind = "null" THEN "null"
    ELSE IF ~extraction.value.text.hasIsRequest THEN "lacksIsRequest"
    ELSE "decoded"

\* ------------------------------------------------------------------------
\* invokeDJAgent: one action per collaborator call
\* ------------------------------------------------------------------------
Begin(r, vibeRules) ==
    /\ started < MaxRuns
    /\ started' = started + 1
    /\ run' = [run EXCEPT ![r] = [IdleRun EXCEPT !.pc = "parseSongRequest",
                                                 !.vibeRules = vibeRules]]
    /\ UNCHANGED <<catalog, db, http>>

\* POST /api/chat/send calls invokeDJAgent with the party's rule set; here
\* one message is handled at a time
Start(r) ==
    /\ \A q \in Runs : run[q].pc = "idle"
    /\ \E vibeRules \in RuleSets : Begin(r, vibeRules)

\* the same call while another party's run is under way
StartConcurrent(r) ==
    /\ run[r].pc = "idle"
    /\ \E vibeRules \in RuleSets : Begin(r, vibeRules)

\* a step of run r that leaves the catalog alone; an error thrown to
\* invokeDJAgent lands in its catch block
Step(r, o, s, next) ==
    /\ run' = [run EXCEPT ![r] = IF o.threw THEN Catch(s) ELSE next]
    /\ UNCHANGED <<catalog, started, db, http>>

\* Step 1
Parse(r) ==
    /\ run[r].pc = "parseSongRequest"
    /\ \E extraction \in llmInvoke :
          LET o == parseSongRequest(extraction)
              s == [Called(run[r], "parseSongRequest", o)
                       EXCEPT !.extraction = Extraction(extraction)]
          IN  \* parsed.isRequest on null throws a TypeError
              Step(r, o, s, IF o.value.kind = "null" THEN Catch(s)
                            ELSE AfterParse([s EXCEPT !.parsed = o.value.obj]))

\* "any song by artist": the catalog songs of the artist that match the vibe
B_searchSongsByText(r) ==
    /\ run[r].pc = "B_searchSongsByText"
    /\ \E o \in searchSongsByText(catalog, run[r].parsed.artist, ArtistPoolLimit) :
          LET s == Called(run[r], "B_searchSongsByText", o)
              matchingSongs == VibeMatching(o.value, s.vibeRules)
          IN  Step(r, o, s,
                IF Len(matchingSongs) = 1
                THEN EnterA([s EXCEPT !.song = Some(matchingSongs[1]),
                                      !.source = "catalog", !.foundBy = "B"])
                ELSE IF Len(matchingSongs) > 1
                THEN Return([s EXCEPT !.outcome = "NeedsDisambiguation"],
                            "CHAT", None, None, Take(matchingSongs, MaxOptions))
                ELSE [s EXCEPT !.pc = "B_searchYouTube",
                               !.searchQuery = ArtistMoodQuery(s)])

B_searchYouTube(r) ==
    /\ run[r].pc = "B_searchYouTube"
    /\ \E o \in searchYouTube :
          LET s == Called(run[r], "B_searchYouTube", o)
          IN  Step(r, o, s,
                IF IsSome(o.value)
                THEN [s EXCEPT !.pc = "B_analyzeSong", !.yt = o.value,
                               !.catalogSeen = Len(catalog)]
                ELSE Return([s EXCEPT !.outcome = "NotFound"],
                            "CHAT", None, None, <<>>))

B_analyzeSong(r) ==
    /\ run[r].pc = "B_analyzeSong"
    /\ \E o \in analyzeSong :
          LET s == [Called(run[r], "B_analyzeSong", o)
                       EXCEPT !.analysisFailed = o.failed]
              tempSong == TempSong(Val(s.yt), o.value)
              ytVibeCheck == checkVibeMatch(tempSong, s.vibeRules)
              s1 == [s EXCEPT !.vibeCheck = Some(ytVibeCheck),
                              !.log = Append(@, "checkVibeMatch")]
          IN  Step(r, o, s,
                IF ytVibeCheck.matches
                THEN [s1 EXCEPT !.song = Some(tempSong), !.source = "youtube",
                                !.foundBy = "BE", !.pc = "B_addSongToCatalog"]
                ELSE Return([s1 EXCEPT !.outcome = "NotFound"],
                            "CHAT", None, None, <<>>))

\* addSongToCatalog(song, analysis): the embedding call, then the INSERT;
\* when either fails nothing is inserted; no error reaches invokeDJAgent
addSongToCatalog(r, label) ==
    LET queries(e) == IF e.failed THEN {Caught(catalog)}
                      ELSE insertQuery(catalog, Val(run[r].song))
    IN  {[catalog |-> q.value,
          run |-> [Called(run[r], label, q)
                      EXCEPT !.embeddingFailed = e.failed,
                             !.inserted = @ + (Len(q.value) - Len(catalog))]] :
            <<e, q>> \in UNION {{e} \X queries(e) : e \in embeddingsCreate}}

B_addSongToCatalog(r) ==
    /\ run[r].pc = "B_addSongToCatalog"
    /\ \E added \in addSongToCatalog(r, "B_addSongToCatalog") :
          /\ catalog' = added.catalog
          /\ run' = [run EXCEPT ![r] = EnterA(added.run)]
          /\ UNCHANGED <<started, db, http>>

A_findExactSong(r) ==
    /\ run[r].pc = "A_findExactSong"
    /\ \E o \in findExactSong(catalog, run[r].parsed.title, run[r].parsed.artist) :
          LET s == Called(run[r], "A_findExactSong", o)
          IN  Step(r, o, s, EnterC([s EXCEPT !.song = o.value,
                                          !.foundBy = IF IsSome(o.value) THEN "A" ELSE @]))

C_searchSongsBySemantic(r) ==
    /\ run[r].pc = "C_searchSongsBySemantic"
    /\ \E o \in searchSongsBySemantic(catalog, searchQueries(run[r].parsed)[run[r].qi],
                                      SemanticLimit) :
          LET isValid == {i \in DOMAIN o.value : SemanticValid(run[r].parsed, o.value[i])}
              song == FirstValid(o.value, isValid)
              s == [Called(run[r], "C_searchSongsBySemantic", o)
                       EXCEPT !.hits = Append(@, Scanned(o.value, song))]
              next == NextQuery(s.parsed, s.qi + 1)
          IN  Step(r, o, s,
                IF IsSome(song)
                THEN EnterD([s EXCEPT !.song = song, !.foundBy = "C"])
                ELSE IF next # 0 THEN [s EXCEPT !.qi = next]
                ELSE EnterD(s))

D_searchSongsByText(r) ==
    /\ run[r].pc = "D_searchSongsByText"
    /\ LET query == searchQueries(run[r].parsed)[run[r].qi]
       IN  \E o \in searchSongsByText(catalog, query, TextLimit) :
              LET s == Called(run[r], "D_searchSongsByText", o)
                  isValid == {i \in DOMAIN o.value : TextValid(s.parsed, query, o.value[i])}
                  song == FirstValid(o.value, isValid)
                  next == NextQuery(s.parsed, s.qi + 1)
              IN  Step(r, o, s,
                    IF IsSome(song)
                    THEN EnterE([s EXCEPT !.song = song, !.foundBy = "D"])
                    ELSE IF next # 0 THEN [s EXCEPT !.qi = next]
                    ELSE EnterE(s))

E_searchYouTube(r) ==
    /\ run[r].pc = "E_searchYouTube"
    /\ \E o \in searchYouTube :
          LET s == Called(run[r], "E_searchYouTube", o)
          IN  Step(r, o, s,
                IF IsSome(o.value)
                THEN [s EXCEPT !.pc = "E_analyzeSong", !.yt = o.value,
                               !.source = "youtube",
                               !.catalogSeen = Len(catalog)]
                ELSE Step4(s))

E_analyzeSong(r) ==
    /\ run[r].pc = "E_analyzeSong"
    /\ \E o \in analyzeSong :
          LET s == [Called(run[r], "E_analyzeSong", o)
                       EXCEPT !.analysisFailed = o.failed]
          IN  Step(r, o, s, [s EXCEPT !.song = Some(TempSong(Val(s.yt), o.value)),
                                   !.foundBy = "E", !.pc = "E_addSongToCatalog"])

E_addSongToCatalog(r) ==
    /\ run[r].pc = "E_addSongToCatalog"
    /\ \E added \in addSongToCatalog(r, "E_addSongToCatalog") :
          /\ catalog' = added.catalog
          /\ run' = [run EXCEPT ![r] = Step4(added.run)]
          /\ UNCHANGED <<started, db, http>>

\* Suggest without the re-validation of each entry
Suggest_Unverified(pool, vibeRules) == Take(pool, MaxSuggestions)

\* the verified suggestions a pool yields: its passing entries, at most 3
Suggest(pool, vibeRules) == Take(VibeMatching(pool, vibeRules), MaxSuggestions)

S_searchSongsByText(r) ==
    /\ run[r].pc = "S_searchSongsByText"
    /\ \E o \in searchSongsByText(catalog, run[r].parsed.artist, SuggestPoolLimit) :
          LET s == Called(run[r], "S_searchSongsByText", o)
          IN  Step(r, o, s, AfterArtistPool(
                           [s EXCEPT !.suggestions = Suggest(o.value, s.vibeRules)]))

S_getSongsByMood(r) ==
    /\ run[r].pc = "S_getSongsByMood"
    /\ \E o \in getSongsByMood(catalog, Val(Val(run[r].vibeRules).allowedMoods),
                               MoodPoolLimit) :
          LET s == Called(run[r], "S_getSongsByMood", o)
          IN  Step(r, o, s, [s EXCEPT !.suggestions =
                                       Take(@ \o Suggest(o.value, s.vibeRules),
                                            MaxSuggestions),
                                   !.pc = "respondDeny"])

\* Reply handing back the rejected candidate in the song field
Reply_DenyNamesSong(s) ==
    CASE s.pc = "respondChat" -> Return(s, "CHAT", None, None, <<>>)
      [] s.pc = "respondNotFound" -> Return(s, "AI_DENY", None, None, <<>>)
      [] s.pc = "respondDeny" ->
            Return(s, "AI_DENY", Accepted(Val(s.song)),
                   IF Len(s.suggestions) > 0 THEN Some(s.suggestions[1]) ELSE None,
                   <<>>)
      [] s.pc = "respondAccept" ->
            Return(s, "AI_ACCEPT", Accepted(Val(s.song)), None, <<>>)

\* the result returned once the reply is generated
Reply(s) ==
    CASE s.pc = "respondChat" -> Return(s, "CHAT", None, None, <<>>)
      [] s.pc = "respondNotFound" -> Return(s, "AI_DENY", None, None, <<>>)
      [] s.pc = "respondDeny" ->
            Return(s, "AI_DENY", None,
                   IF Len(s.suggestions) > 0 THEN Some(s.suggestions[1]) ELSE None,
                   <<>>)
      [] s.pc = "respondAccept" ->
            Return(s, "AI_ACCEPT", Accepted(Val(s.song)), None, <<>>)

Respond(r) ==
    /\ run[r].pc \in {"respondChat", "respondNotFound", "respondDeny", "respondAccept"}
    /\ \E o \in generateResponse :
          LET s == Called(run[r], "generateResponse", o)
          IN  Step(r, o, s, Reply(s))

\* the caller has taken the result; the run's locals are gone
Finish(r) ==
    /\ run[r].pc = "done"
    /\ run' = [run EXCEPT ![r] = IdleRun]
    /\ UNCHANGED <<catalog, started, db, http>>

Pipeline(r) ==
    \/ Parse(r)
    \/ B_searchSongsByText(r) \/ B_searchYouTube(r) \/ B_analyzeSong(r)
    \/ B_addSongToCatalog(r)
    \/ A_findExactSong(r) \/ C_searchSongsBySemantic(r) \/ D_searchSongsByText(r)
    \/ E_searchYouTube(r) \/ E_analyzeSong(r) \/ E_addSongToCatalog(r)
    \/ S_searchSongsByText(r) \/ S_getSongsByMood(r)
    \/ Respond(r)
    \/ Finish(r)

Next == \E r \in Runs : Start(r) \/ Pipeline(r)

Spec == Init /\ [][Next]_vars


\* ------------------------------------------------------------------------
\* Two parties' runs under way at once, both asking for the same song
\* ------------------------------------------------------------------------
SameRequest(r) ==
    /\ run'[r].parsed.isRequest =>
          run'[r].parsed.title # <<>> /\ run'[r].parsed.artist # <<>>
    /\ \A q \in Runs \ {r} :
          run'[q].parsed.isRequest /\ run'[r].parsed.isRequest =>
              /\ run'[q].parsed.title = run'[r].parsed.title
              /\ run'[q].parsed.artist = run'[r].parsed.artist

InitConcurrent ==
    /\ catalog \in {c \in SeedCatalogs : Len(c) <= 1}
    /\ run = [r \in Runs |-> IdleRun]
    /\ started = 0
    /\ db = EmptyDb
    /\ http = [c \in Clients |-> IdleHttp]

NextConcurrent == \E r \in Runs : (StartConcurrent(r) \/ Pipeline(r)) /\ SameRequest(r)

SpecConcurrent == InitConcurrent /\ [][NextConcurrent]_vars


\* ------------------------------------------------------------------------
\* Properties
\* ------------------------------------------------------------------------
AddCalls == {"B_addSongToCatalog", "E_addSongToCatalog"}

\* the calls of the resolution stages A, C, D and of discovery
ResolutionCalls ==
    {"A_findExactSong", "C_searchSongsBySemantic", "D_searchSongsByText",
     "B_searchYouTube", "E_searchYouTube"}

\* catalog accessors, discovery, classification and enrichment
CollaboratorCalls ==
    ResolutionCalls \cup AddCalls \cup
    {"B_searchSongsByText", "S_searchSongsByText", "S_getSongsByMood",
     "B_analyzeSong", "E_analyzeSong"}

StageRank(call) ==
    CASE call = "A_findExactSong" -> 1
      [] call = "C_searchSongsBySemantic" -> 2
      [] call = "D_searchSongsByText" -> 3
      [] OTHER -> 4

Count(log, call) == Cardinality({i \in DOMAIN log : log[i] = call})

LastCall(s) == IF s.log = <<>> THEN "none" ELSE s.log[Len(s.log)]

HasResult(s, type) == IsSome(s.result) /\ Val(s.result).type = type

NoDuplicateRows ==
    \A i, j \in DOMAIN catalog :
        i # j => ~(catalog[i].title = catalog[j].title
                   /\ catalog[i].artist = catalog[j].artist)

\* C1: a run returns AI_ACCEPT with a song only if that song passed
\* checkVibeMatch against the run's rule set, whatever stage produced it.
C1_AcceptedOnlyIfVibeMatch ==
    \A r \in Runs :
        HasResult(run[r], "AI_ACCEPT") /\ IsSome(Val(run[r].result).song) =>
            /\ IsSome(run[r].vibeCheck) /\ Val(run[r].vibeCheck).matches
            /\ checkVibeMatch(Val(Val(run[r].result).song), run[r].vibeRules).matches

\* a discovery hit accepted under a rule set that names allowed moods
C1_Witness ==
    \E r \in Runs :
        /\ HasResult(run[r], "AI_ACCEPT") /\ run[r].source = "youtube"
        /\ IsSome(run[r].vibeRules) /\ IsSome(Val(run[r].vibeRules).allowedMoods)

\* the accessors that search the catalog by text, wherever they are called
TextSearchCalls ==
    {"D_searchSongsByText", "B_searchSongsByText", "S_searchSongsByText"}

\* C2 as stated: the stages run in the order A, C, D, E, and once
\* findExactSong returned an entry no semantic search, no text search and no
\* discovery call is made in that run.
C2_NoSearchAfterExactHit ==
    \A r \in Runs :
        LET log == run[r].log IN
        /\ \A i, j \in DOMAIN log :
              i < j /\ log[i] \in ResolutionCalls /\ log[j] \in ResolutionCalls
                 => StageRank(log[i]) <= StageRank(log[j])
        /\ run[r].foundBy = "A" =>
              Range(log) \cap (ResolutionCalls \cup TextSearchCalls)
                 = {"A_findExactSong"}

\* C2 amended: the resolution calls of a run are made in the order A, C, D,
\* E, and after the stage that found the song no resolution-stage call is
\* made: none of C, D, E after an exact hit, none of D, E after a semantic
\* hit, no E after a text hit. (A rejected hit is still followed by the
\* suggestion finder's text search for the artist.)
C2_StagesShortCircuit ==
    \A r \in Runs :
        LET log == run[r].log IN
        /\ \A i, j \in DOMAIN log :
              i < j /\ log[i] \in ResolutionCalls /\ log[j] \in ResolutionCalls
                 => StageRank(log[i]) <= StageRank(log[j])
        /\ run[r].foundBy = "A" =>
              Range(log) \cap ResolutionCalls = {"A_findExactSong"}
        /\ run[r].foundBy = "C" =>
              Range(log) \cap ResolutionCalls \subseteq
                 {"A_findExactSong", "C_searchSongsBySemantic"}
        /\ run[r].foundBy = "D" =>
              Range(log) \cap ResolutionCalls \subseteq
                 {"A_findExactSong", "C_searchSongsBySemantic", "D_searchSongsByText"}
        /\ run[r].foundBy \in {"A", "C", "D", "E"} =>
              run[r].pc \notin ResolutionCalls

\* a run that ended on a semantic hit after the exact lookup had missed, and
\* that went on to the suggestion finder
C2_Witness ==
    \E r \in Runs :
        /\ run[r].pc = "done" /\ run[r].foundBy = "C"
        /\ "A_findExactSong" \in Range(run[r].log)
        /\ "S_searchSongsByText" \in Range(run[r].log)

\* C3: a request with neither title nor artist ends as NotFound and calls no
\* catalog accessor, no discovery, no classification and no insert.
C3_NoTitleNoArtistCallsNothing ==
    \A r \in Runs :
        /\ run[r].parsed.isRequest
        /\ run[r].parsed.title = <<>> /\ run[r].parsed.artist = <<>>
        => /\ Range(run[r].log) \cap CollaboratorCalls = {}
           /\ run[r].pc = "done" => run[r].outcome = "NotFound"

\* C4: addSongToCatalog is called only for a discovery hit and only after a
\* vibe check of it; a run that ends Rejected or NotFound has inserted
\* nothing.
C4_InsertOnlyAfterVibeCheck ==
    \A r \in Runs :
        /\ \A i \in DOMAIN run[r].log :
              run[r].log[i] \in AddCalls =>
                 /\ run[r].source = "youtube"
                 /\ \E j \in 1..(i - 1) : run[r].log[j] = "checkVibeMatch"
        /\ run[r].outcome \in {"Rejected", "NotFound"} => run[r].inserted = 0

\* C5: the catalog holds at most one row per (title, artist).
C5_OneRowPerTitleArtist == NoDuplicateRows

\* C6: two runs that both missed the catalog before either inserted, and both
\* enriched it with their discovery hit, leave no two rows with the same
\* (title, artist).
C6_ConcurrentEnrichmentNoDuplicates ==
    \A r1, r2 \in Runs :
        /\ r1 # r2
        /\ run[r1].inserted = 1 /\ run[r2].inserted = 1
        /\ run[r1].catalogSeen = Len(catalog) - 2
        /\ run[r2].catalogSeen = Len(catalog) - 2
        => LET a == catalog[Len(catalog) - 1]
               b == catalog[Len(catalog)]
           IN  ~(a.title = b.title /\ a.artist = b.artist)

\* C7: every suggestion a run collects, and the suggestion it returns, passes
\* checkVibeMatch against the rule set that rejected the candidate; with no
\* verified entry the returned suggestion is null.
C7_SuggestionsVerified ==
    \A r \in Runs :
        /\ \A i \in DOMAIN run[r].suggestions :
              checkVibeMatch(run[r].suggestions[i], run[r].vibeRules).matches
        /\ run[r].suggestions # <<>> =>
              IsSome(run[r].vibeCheck) /\ ~Val(run[r].vibeCheck).matches
        /\ IsSome(run[r].result) =>
              LET suggestion == Val(run[r].result).suggestion IN
              IF run[r].suggestions = <<>> \/ ~HasResult(run[r], "AI_DENY")
              THEN suggestion = None
              ELSE /\ suggestion = Some(run[r].suggestions[1])
                   /\ checkVibeMatch(Val(suggestion), run[r].vibeRules).matches

\* a rejection answered with a verified suggestion
C7_Witness ==
    \E r \in Runs :
        /\ HasResult(run[r], "AI_DENY") /\ IsSome(Val(run[r].result).suggestion)
        /\ Len(run[r].suggestions) > 1

\* the candidate of Step 5 has a year below the rule set's era minimum
YearBelowMin(s) ==
    /\ IsSome(s.song) /\ IsSome(s.vibeCheck)
    /\ IsSome(s.vibeRules) /\ IsSome(Val(s.vibeRules).allowedEras)
    /\ Val(Val(s.vibeRules).allowedEras).min # 0
    /\ Val(s.song).year # 0
    /\ Val(s.song).year < Val(Val(s.vibeRules).allowedEras).min

EraMin(s) == Val(Val(s.vibeRules).allowedEras).min

YearReason == "Song is from year, but party requires min+"

\* C8 as stated: a candidate whose year is below the era minimum m is
\* Rejected with the year reason, and at most 3 alternatives are returned,
\* each with year >= m.
C8_YearBelowMinRejectedForYear ==
    \A r \in Runs :
        YearBelowMin(run[r]) =>
            /\ run[r].outcome = "Rejected"
            /\ Val(run[r].vibeCheck).reason = YearReason
            /\ Len(run[r].suggestions) <= MaxSuggestions
            /\ \A i \in DOMAIN run[r].suggestions :
                  run[r].suggestions[i].year >= EraMin(run[r])

\* C8 amended: such a candidate fails the check and the run is Rejected,
\* never accepted; the reason is the year reason unless a mood check fails
\* first; at most 3 alternatives are collected, each with no year or with
\* year >= m.
C8_YearBelowMinRejected ==
    \A r \in Runs :
        /\ YearBelowMin(run[r]) =>
            /\ ~Val(run[r].vibeCheck).matches
            /\ run[r].outcome = "Rejected"
            /\ ~HasResult(run[r], "AI_ACCEPT")
            /\ ~BlockedMoodFails(Val(run[r].song), Val(run[r].vibeRules))
               /\ ~AllowedMoodFails(Val(run[r].song), Val(run[r].vibeRules))
               => Val(run[r].vibeCheck).reason = YearReason
            /\ Len(run[r].suggestions) <= MaxSuggestions
            /\ \A i \in DOMAIN run[r].suggestions :
                  \/ run[r].suggestions[i].year = 0
                  \/ run[r].suggestions[i].year >= EraMin(run[r])
        /\ HasResult(run[r], "AI_ACCEPT") /\ IsSome(run[r].vibeRules)
           /\ IsSome(Val(run[r].vibeRules).allowedEras) /\ EraMin(run[r]) # 0
           => LET song == Val(Val(run[r].result).song)
              IN  song.year = 0 \/ song.year >= EraMin(run[r])

\* a run rejected for the year that collected the full 3 alternatives
C8_Witness ==
    \E r \in Runs :
        /\ YearBelowMin(run[r]) /\ run[r].pc = "done"
        /\ Val(run[r].vibeCheck).reason = YearReason
        /\ Len(run[r].suggestions) = MaxSuggestions

\* C9: when the classification or the embedding of a discovery hit fails, the
\* run keeps its candidate but inserts no catalog row for it.
C9_FailedEnrichmentNotPersisted ==
    \A r \in Runs :
        run[r].analysisFailed \/ run[r].embeddingFailed =>
            /\ run[r].inserted = 0
            /\ LastCall(run[r]) \in AddCalls => IsSome(run[r].song)

\* the number of non-empty queries before index i
QueriesBefore(parsed, i) ==
    Cardinality({k \in 1..(i - 1) :
                    k <= Len(searchQueries(parsed)) /\ searchQueries(parsed)[k] # <<>>})

AllQueries(parsed) == QueriesBefore(parsed, Len(searchQueries(parsed)) + 1)

\* C10: a failed catalog or discovery call counts as a stage without result:
\* the run goes on with the next query or the next stage in order, none is
\* skipped, and the run does not end on the failure (the artist-only
\* discovery ends it as its empty answer does).
C10_FailureIsNoResult ==
    \A r \in Runs :
        LET s == run[r] IN
        s.lastFailed =>
            /\ LastCall(s) = "A_findExactSong" =>
                  s.pc = "C_searchSongsBySemantic" /\ s.qi = 1
            /\ LastCall(s) = "C_searchSongsBySemantic" =>
                  \/ /\ s.pc = "C_searchSongsBySemantic"
                     /\ searchQueries(s.parsed)[s.qi] # <<>>
                     /\ Count(s.log, "C_searchSongsBySemantic") = QueriesBefore(s.parsed, s.qi)
                  \/ /\ s.pc = "D_searchSongsByText"
                     /\ s.qi = NextQuery(s.parsed, 1)
                     /\ Count(s.log, "C_searchSongsBySemantic") = AllQueries(s.parsed)
            /\ LastCall(s) = "D_searchSongsByText" =>
                  \/ /\ s.pc = "D_searchSongsByText"
                     /\ searchQueries(s.parsed)[s.qi] # <<>>
                     /\ Count(s.log, "D_searchSongsByText") = QueriesBefore(s.parsed, s.qi)
                  \/ /\ Count(s.log, "D_searchSongsByText") = AllQueries(s.parsed)
                     /\ IF s.parsed.title # <<>> \/ s.parsed.artist # <<>>
                        THEN s.pc = "E_searchYouTube"
                        ELSE s.pc = "respondNotFound"
            /\ LastCall(s) = "E_searchYouTube" =>
                  s.pc = "respondNotFound" /\ s.outcome = "NotFound"
            /\ LastCall(s) = "B_searchSongsByText" => s.pc = "B_searchYouTube"
            /\ LastCall(s) = "B_searchYouTube" =>
                  s.outcome = "NotFound" /\ HasResult(s, "CHAT")

\* the text fallback failed on its last query and discovery is up next
C10_Witness ==
    \E r \in Runs :
        /\ run[r].lastFailed /\ LastCall(run[r]) = "D_searchSongsByText"
        /\ run[r].pc = "E_searchYouTube"
        /\ Count(run[r].log, "D_searchSongsByText") = 2

ResultTypes == {"CHAT", "AI_ACCEPT", "AI_DENY"}

\* C11: invokeDJAgent never raises: every run that ends, whatever failed on
\* the way (reply generation included), ends with a result object of type
\* CHAT, AI_ACCEPT or AI_DENY; options come only with CHAT.
C11_NeverRaises ==
    \A r \in Runs :
        run[r].pc = "done" =>
            /\ IsSome(run[r].result)
            /\ Val(run[r].result).type \in ResultTypes
            /\ Val(run[r].result).options # <<>> => Val(run[r].result).type = "CHAT"
            /\ Val(run[r].result).type = "AI_ACCEPT" <=> IsSome(Val(run[r].result).song)

\* a run whose reply generation threw, after a song had been approved
C11_Witness ==
    \E r \in Runs :
        /\ run[r].pc = "done" /\ LastCall(run[r]) = "generateResponse"
        /\ run[r].lastFailed /\ run[r].outcome = "Resolved"
        /\ HasResult(run[r], "CHAT")

Sad == <<"S", "a", "d">>

VibeSongs ==
    {Row(1, Sun, artist, year, mood, FALSE) :
        artist \in {Ade, Bob}, year \in {0, 1975, 2020},
        mood \in {None, Some(<<>>), Some(<<sad>>), Some(<<happy>>)}}

VibeRuleSets ==
    {None} \cup
    {Rules(blockedMoods, allowedMoods, allowedEras, blockedArtists) :
        blockedMoods \in {None, Some(<<>>), Some(<<Sad>>)},
        allowedMoods \in {None, Some(<<>>), Some(<<happy>>)},
        allowedEras \in {None, Era(2000, 0), Era(0, 2000), Era(2000, 2020)},
        blockedArtists \in {None, Some(<<>>), Some(<<ade>>)}}

\* {}: a rule set with no field set
EmptyRules == Rules(None, None, None, None)

InitVibe ==
    /\ catalog \in {<<song>> : song \in VibeSongs}
    /\ run \in {[r \in Runs |-> [IdleRun EXCEPT !.vibeRules = vibeRules]] :
                   vibeRules \in VibeRuleSets}
    /\ started = 0
    /\ db = EmptyDb
    /\ http = [c \in Clients |-> IdleHttp]

\* a party's request reaches the check
BeginCheck(r) ==
    /\ run[r].pc = "idle" /\ ~IsSome(run[r].vibeCheck)
    /\ started < MaxRuns
    /\ started' = started + 1
    /\ run' = [run EXCEPT ![r].pc = "checkVibeMatch"]
    /\ UNCHANGED <<catalog, db, http>>

\* const vibeCheck = checkVibeMatch(song, vibeRules)
Evaluate(r) ==
    /\ run[r].pc = "checkVibeMatch"
    /\ run' = [run EXCEPT ![r].song = Some(catalog[1]),
                          ![r].vibeCheck = Some(checkVibeMatch(catalog[1], run[r].vibeRules)),
                          ![r].pc = "idle"]
    /\ UNCHANGED <<catalog, started, db, http>>

NextVibe == \E r \in Runs : BeginCheck(r) \/ Evaluate(r)

SpecVibe == InitVibe /\ [][NextVibe]_vars

Evaluated(r) == IsSome(run[r].vibeCheck)

\* C13: checkVibeMatch returns matches = true for every entry when the rule
\* set is absent and when it is empty (no field set).
C13_NoRulesAlwaysMatch ==
    \A r \in Runs :
        Evaluated(r) /\ run[r].vibeRules \in {None, EmptyRules} =>
            Val(run[r].vibeCheck).matches

\* an entry evaluated against no rule set, and one against the empty one
C13_Witness ==
    \E r \in Runs : Evaluated(r) /\ run[r].vibeRules = EmptyRules

\* the checks in the order of C14, and the reasons each may give
ChecksInOrder(song, rules) ==
    << BlockedMoodFails(song, rules),
       AllowedMoodFails(song, rules),
       EraMinFails(song, rules) \/ EraMaxFails(song, rules),
       BlockedArtistFails(song, rules) >>

ReasonsInOrder(song, rules) ==
    << "Song mood is not allowed for this vibe",
       "Song doesn't match the required mood",
       IF EraMinFails(song, rules)
       THEN "Song is from year, but party requires min+"
       ELSE "Song is from year, but party is for pre-max",
       "Artist is blocked for this party" >>

C15_NoAllowedMoodFails ==
    \A r \in Runs :
        /\ Evaluated(r) /\ IsSome(run[r].vibeRules)
        /\ IsSome(Val(run[r].vibeRules).allowedMoods)
        /\ Val(Val(run[r].vibeRules).allowedMoods) # <<>>
        /\ LET entryMoods == IF IsSome(Val(run[r].song).mood)
                             THEN Range(Val(Val(run[r].song).mood)) ELSE {}
           IN  entryMoods \cap Range(Val(Val(run[r].vibeRules).allowedMoods)) = {}
        => ~Val(run[r].vibeCheck).matches

PassingArtistRows(s) ==
    {i \in searchSongsByTextRows(catalog, s.parsed.artist) :
        checkVibeMatch(catalog[i], s.vibeRules).matches}

\* the artist-only text search was the run's last collaborator call and it
\* did not fail
ArtistPoolFetched(s) ==
    /\ Len(s.log) >= 2 /\ s.log[2] = "B_searchSongsByText" /\ ~s.lastFailed
    /\ \A i \in 3..Len(s.log) : s.log[i] = "checkVibeMatch"

\* C17: artist-only request: exactly one passing entry is resolved from the
\* catalog; more than one ends the run as NeedsDisambiguation with at most 5
\* options, each passing checkVibeMatch, no song picked, and no semantic,
\* text-fallback or discovery call made.
C17_ArtistOnlyCatalog ==
    \A r \in Runs :
        LET s == run[r] IN
        /\ s.foundBy = "B" =>
              /\ IsSome(s.song) /\ s.source = "catalog"
              /\ Val(s.song) \in Range(catalog)
              /\ checkVibeMatch(Val(s.song), s.vibeRules).matches
              /\ Range(s.log) \cap (ResolutionCalls \cup AddCalls) = {}
              /\ s.outcome = "Resolved"
              /\ s.pc = "done" /\ ~s.lastFailed =>
                    /\ HasResult(s, "AI_ACCEPT")
                    /\ Val(s.result).song = Accepted(Val(s.song))
        /\ s.outcome = "NeedsDisambiguation" =>
              /\ s.pc = "done" /\ HasResult(s, "CHAT")
              /\ s.song = None /\ Val(s.result).song = None
              /\ s.log = <<"parseSongRequest", "B_searchSongsByText">>
              /\ LET options == Val(s.result).options IN
                 /\ Len(options) > 1 /\ Len(options) <= MaxOptions
                 /\ \A i \in DOMAIN options :
                       /\ options[i] \in Range(catalog)
                       /\ checkVibeMatch(options[i], s.vibeRules).matches
                       /\ \A j \in DOMAIN options : options[i] = options[j] => i = j
        /\ ArtistPoolFetched(s) =>
              LET n == Cardinality(PassingArtistRows(s)) IN
              /\ n = 1 => s.foundBy = "B" /\ Val(s.song).id \in PassingArtistRows(s)
              /\ n > 1 =>
                    /\ s.outcome = "NeedsDisambiguation"
                    /\ Len(Val(s.result).options) = IF n < MaxOptions THEN n ELSE MaxOptions
              /\ n = 0 => s.pc = "B_searchYouTube"

\* more entries pass than the options list may hold
C17_Witness ==
    \E r \in Runs :
        /\ run[r].outcome = "NeedsDisambiguation"
        /\ Cardinality(PassingArtistRows(run[r])) > MaxOptions
        /\ Len(Val(run[r].result).options) = MaxOptions

\* the first allowed mood of a rule set, the empty string if there is none
FirstAllowedMood(vibeRules) ==
    IF IsSome(vibeRules) /\ IsSome(Val(vibeRules).allowedMoods)
       /\ Val(Val(vibeRules).allowedMoods) # <<>>
    THEN Head(Val(Val(vibeRules).allowedMoods))
    ELSE <<>>

\* the artist-only discovery result failed the rule set, or there was none
ArtistOnlyNoSong(s) ==
    /\ "B_searchYouTube" \in Range(s.log)
    /\ s.foundBy # "BE"

\* the parts of C18 that hold as stated: the query, and the end of a run
\* whose discovery result failed the rule set
C18_QueryAndRejection(s) ==
    /\ s.pc = "B_searchYouTube" \/ "B_searchYouTube" \in Range(s.log) =>
          s.searchQuery =
             s.parsed.artist \o <<" ">> \o FirstAllowedMood(s.vibeRules)
                \o <<" ">> \o <<"s", "o", "n", "g">>
    /\ ArtistOnlyNoSong(s) /\ s.pc # "B_analyzeSong" =>
          /\ s.pc = "done" /\ HasResult(s, "CHAT")
          /\ Val(s.result).song = None /\ s.song = None
          /\ s.inserted = 0 /\ Range(s.log) \cap AddCalls = {}
    /\ s.foundBy = "BE" =>
          /\ s.source = "youtube"
          /\ Val(s.song) = TempSong(Val(s.yt), Val(Val(s.song).mood))
          /\ Val(s.vibeCheck).matches

\* C18 as stated: artist-only request with no passing catalog entry:
\* discovery is asked with artist plus first allowed mood; a result that
\* passes the rule set is Resolved from discovery and a new row is persisted;
\* one that fails ends the run with no song and no row written.
C18_ArtistOnlyDiscoveryPersists ==
    \A r \in Runs :
        /\ C18_QueryAndRejection(run[r])
        /\ run[r].foundBy = "BE" /\ run[r].pc = "done" =>
              /\ HasResult(run[r], "AI_ACCEPT")
              /\ run[r].inserted = 1

\* C18 amended: as above, but the passing result is accepted unless reply
\* generation fails, and its row is persisted unless the embedding call or
\* the insert of addSongToCatalog fails.
C18_ArtistOnlyDiscovery ==
    \A r \in Runs :
        LET s == run[r] IN
        /\ C18_QueryAndRejection(s)
        /\ s.foundBy = "BE" /\ "B_addSongToCatalog" \in Range(s.log) =>
              /\ s.outcome = "Resolved"
              /\ s.embeddingFailed => s.inserted = 0
              /\ LastCall(s) = "checkVibeMatch" =>
                    s.inserted = IF s.lastFailed THEN 0 ELSE 1
              /\ s.inserted = 1 =>
                    /\ catalog[Len(catalog)].title = Val(s.song).title
                    /\ catalog[Len(catalog)].artist = Val(s.song).artist
                    /\ catalog[Len(catalog)].mood = Val(s.song).mood
              /\ s.pc = "done" =>
                    IF s.lastFailed THEN HasResult(s, "CHAT")
                    ELSE /\ HasResult(s, "AI_ACCEPT")
                         /\ Val(s.result).song = Accepted(Val(s.song))

\* a discovery hit found with a mood keyword in the query, accepted and
\* persisted
C18_Witness ==
    \E r \in Runs :
        /\ run[r].foundBy = "BE" /\ run[r].pc = "done"
        /\ HasResult(run[r], "AI_ACCEPT") /\ run[r].inserted = 1
        /\ FirstAllowedMood(run[r].vibeRules) # <<>>

\* the words of the requested title, all of them
TitleWords(parsed) == split(toLowerCase(parsed.title))

\* C19 as stated: when a title was requested, the semantic stage accepts a hit only if
\* at least half of the words of the requested title occur in the hit's
\* title, also for titles whose words have length 2 or less.
C19_HalfOfTitleWordsMatch ==
    \A r \in Runs :
        run[r].foundBy = "C" /\ run[r].parsed.title # <<>> =>
            LET words == TitleWords(run[r].parsed)
                matching == {i \in DOMAIN words :
                               includes(toLowerCase(Val(run[r].song).title), words[i])}
            IN  2 * Cardinality(matching) >= Len(words)

\* the words of the requested title that the validation counts: those longer
\* than 2 characters
SignificantWords(parsed) ==
    LET IsLong(w) == Len(w) > 2 IN SelectSeq(TitleWords(parsed), IsLong)

\* at least half of `words` occur in the lower-cased title of `row`
HalfOccur(words, row) ==
    LET matching == {i \in DOMAIN words : includes(toLowerCase(row.title), words[i])}
    IN  2 * Cardinality(matching) >= Len(words)

\* C19 amended: when a title was requested, the semantic stage accepts a hit
\* only if at least half of the requested title's words longer than 2
\* characters occur in the hit's title, and passes over every hit scanned
\* before it that has fewer; a title with no such word constrains nothing.
C19_HalfOfSignificantWordsMatch ==
    \A r \in Runs :
        LET s == run[r] IN
        /\ s.foundBy = "C" /\ s.parsed.title # <<>> =>
              HalfOccur(SignificantWords(s.parsed), Val(s.song))
        /\ \A k \in DOMAIN s.hits : \A row \in s.hits[k].before :
              /\ s.parsed.title # <<>>
              /\ ~HalfOccur(SignificantWords(s.parsed), row)
              => ~(s.foundBy = "C" /\ Val(s.song) = row)
        /\ s.foundBy = "C" /\ s.parsed.title # <<>>
              /\ SignificantWords(s.parsed) = <<>> =>
              s.hits[Len(s.hits)].before = {} \/ s.parsed.artist # <<>>

\* a hit accepted for a title with a significant word, after a hit whose
\* title lacks it was passed over
C19_Witness ==
    \E r \in Runs :
        /\ run[r].foundBy = "C"
        /\ SignificantWords(run[r].parsed) # <<>>
        /\ \E row \in run[r].hits[Len(run[r].hits)].before :
              ~HalfOccur(SignificantWords(run[r].parsed), row)

\* no row of a scanned result would have been a valid hit
NoValidHit(parsed, rows) == \A row \in rows : ~SemanticValid(parsed, row)

\* C20: the semantic stage accepts the first valid hit: the queries are
\* issued in the order title, then each variation, empty ones left out; no
\* query before the accepting one returned a valid hit, no hit before the
\* accepted one in its result is valid, and no semantic query follows.
C20_FirstValidHitAccepted ==
    \A r \in Runs :
        LET s == run[r]
            n == Len(s.hits)
        IN  /\ n = Count(s.log, "C_searchSongsBySemantic")
            /\ \A k \in 1..n :
                  k < n \/ s.foundBy # "C" =>
                      NoValidHit(s.parsed, s.hits[k].before \cup s.hits[k].after)
            /\ s.foundBy = "C" =>
                  /\ n >= 1 /\ SemanticValid(s.parsed, Val(s.song))
                  /\ NoValidHit(s.parsed, s.hits[n].before)
                  /\ Val(s.song) \notin s.hits[n].before \cup s.hits[n].after
                  /\ searchQueries(s.parsed)[s.qi] # <<>>
                  /\ n = QueriesBefore(s.parsed, s.qi) + 1
                  /\ s.pc # "C_searchSongsBySemantic"

\* a hit accepted although a later hit of the same result was valid too
C20_Witness ==
    \E r \in Runs :
        /\ run[r].foundBy = "C"
        /\ ~NoValidHit(run[r].parsed, run[r].hits[Len(run[r].hits)].after)

\* C22: the catalog is append-only: every step of a run leaves each existing
\* SongCatalog row in place with its fields untouched; an enrichment insert
\* only adds a row after them.
C22_CatalogAppendOnly ==
    [][/\ Len(catalog') >= Len(catalog)
       /\ \A i \in DOMAIN catalog : catalog'[i] = catalog[i]]_vars

\* a discovery hit inserted next to a row of the same title and artist
C22_Witness ==
    \E r \in Runs :
        /\ run[r].inserted = 1
        /\ \E i \in 1..(Len(catalog) - 1) :
              /\ catalog[i].title = catalog[Len(catalog)].title
              /\ catalog[i].artist = catalog[Len(catalog)].artist
              /\ catalog[i].year # catalog[Len(catalog)].year

\* the catalog rows whose title equals the title run r asks for,
\* case-insensitively, and whose artist contains the artist r asks for
RowsAskedFor(r) ==
    {i \in DOMAIN catalog :
        /\ run[r].parsed.title # <<>> /\ run[r].parsed.artist # <<>>
        /\ toLowerCase(catalog[i].title) = toLowerCase(run[r].parsed.title)
        /\ includes(toLowerCase(catalog[i].artist), toLowerCase(run[r].parsed.artist))}

\* run r takes its exact-match step
ExactStep(r) ==
    run[r].pc = "A_findExactSong" /\ run'[r].pc # "A_findExactSong"

\* the song of run r after the step is one of the rows it asked for, found
\* by the exact-match stage
ResolvedExact(r) ==
    /\ run'[r].foundBy = "A" /\ run'[r].source = "catalog"
    /\ \E i \in RowsAskedFor(r) : Val(run'[r].song) = catalog[i]

\* a run resolved by the exact-match stage calls no discovery, no
\* classification and no insert
ExactNeedsNoEnrichment ==
    \A r \in Runs :
        run[r].foundBy = "A" =>
            /\ Range(run[r].log) \cap
                  (AddCalls \cup {"E_searchYouTube", "E_analyzeSong",
                                  "B_searchYouTube", "B_analyzeSong"}) = {}
            /\ run[r].inserted = 0

\* C23 as stated: a row (t, a) in the catalog, so also one an earlier run
\* persisted from a discovery hit, makes every later run asking for t and a
\* resolve it by the exact-match stage and call no discovery, classification
\* or insert.
C23_PersistedHitServedByExactMatch ==
    /\ [][\A r \in Runs :
            ExactStep(r) /\ RowsAskedFor(r) # {} => ResolvedExact(r)]_vars
    /\ []ExactNeedsNoEnrichment

\* C23 amended: the same, provided the exact-match lookup of the later run
\* does not fail; a failed lookup counts as no result and the later stages
\* take over.
C23_PersistedHitServedUnlessLookupFails ==
    /\ [][\A r \in Runs :
            ExactStep(r) /\ RowsAskedFor(r) # {} /\ ~run'[r].lastFailed
            => ResolvedExact(r)]_vars
    /\ []ExactNeedsNoEnrichment

\* the second run is served by the exact-match stage the only row of the
\* catalog, which was not seeded: the first run persisted it
C23_Witness ==
    \E r \in Runs :
        /\ started = 2 /\ Len(catalog) = 1 /\ catalog \notin SeedCatalogs
        /\ run[r].foundBy = "A" /\ Val(run[r].song) = catalog[1]
        /\ run[r].pc = "done" /\ HasResult(run[r], "AI_ACCEPT")

ArtistPool(s) ==
    {catalog[i] : i \in {j \in DOMAIN catalog :
        \/ includes(toLowerCase(catalog[j].title), toLowerCase(s.parsed.artist))
        \/ includes(toLowerCase(catalog[j].artist), toLowerCase(s.parsed.artist))}}

MoodPool(s) ==
    {catalog[i] : i \in {j \in DOMAIN catalog :
        /\ IsSome(catalog[j].mood)
        /\ \E m \in Range(Val(catalog[j].mood)) :
              m \in Range(Val(Val(s.vibeRules).allowedMoods))}}

\* the position of the first call `what` in a log, 0 if there is none
FirstCall(log, what) ==
    IF \E i \in DOMAIN log : log[i] = what
    THEN CHOOSE i \in DOMAIN log :
            log[i] = what /\ \A j \in DOMAIN log : log[j] = what => i <= j
    ELSE 0

\* C25: after a rejection at most 3 alternatives are collected, from the
\* same-artist pool first; the mood pool is asked only when the same-artist
\* pool gave no passing entry, so the alternatives all come from one pool.
C25_AlternativesFromOnePool ==
    \A r \in Runs :
        LET s == run[r]
            artistAt == FirstCall(s.log, "S_searchSongsByText")
            moodAt == FirstCall(s.log, "S_getSongsByMood")
        IN  /\ Len(s.suggestions) <= 3
            /\ Count(s.log, "S_searchSongsByText") <= 1
            /\ Count(s.log, "S_getSongsByMood") <= 1
            /\ artistAt # 0 \/ moodAt # 0 \/ s.pc \in {"S_searchSongsByText", "S_getSongsByMood"}
                  => s.outcome = "Rejected"
            /\ s.pc = "S_getSongsByMood" => s.suggestions = <<>>
            /\ s.pc = "S_searchSongsByText" => s.suggestions = <<>> /\ moodAt = 0
            /\ moodAt # 0 =>
                  /\ artistAt # 0 => artistAt < moodAt
                  /\ s.parsed.artist # <<>> => artistAt # 0
                  /\ \A i \in DOMAIN s.suggestions : s.suggestions[i] \in MoodPool(s)
            /\ moodAt = 0 /\ s.suggestions # <<>> =>
                  /\ artistAt # 0
                  /\ \A i \in DOMAIN s.suggestions : s.suggestions[i] \in ArtistPool(s)

\* the same-artist pool gave nothing and the mood pool gave the alternatives
C25_Witness ==
    \E r \in Runs :
        /\ FirstCall(run[r].log, "S_searchSongsByText") # 0
        /\ FirstCall(run[r].log, "S_getSongsByMood") # 0
        /\ Len(run[r].suggestions) > 0
        /\ \E i \in DOMAIN run[r].suggestions :
              run[r].suggestions[i] \notin ArtistPool(run[r])
        /\ run[r].pc = "done"

\* ------------------------------------------------------------------------
\* The artist tests of Stage C and Stage D on their own: each party tests
\* the artist of the one catalog entry against the requested artist, first
\* as the semantic stage does, then as the text fallback does
\* ------------------------------------------------------------------------
AlGreen == <<"a", "l", " ", "g", "r", "e", "e", "n">>
AlStone == <<"a", "l", " ", "s", "t", "o", "n", "e">>
BobMoon == <<"b", "o", "b", " ", "m", "o", "o", "n">>
BobStar == <<"B", "o", "b", " ", "s", "t", "a", "r">>

FoundArtists == {Ade, Bob, AlGreen, AlStone, BobMoon, BobStar}
RequestedArtists == FoundArtists \cup {<<>>, ade}

ArtistRun(artist) ==
    [pc |-> "idle", parsed |-> Request(TRUE, Sun, artist, None),
     semantic |-> None, text |-> None]

InitArtist ==
    /\ catalog \in {<<Row(1, Sun, artist, 0, None, TRUE)>> : artist \in FoundArtists}
    /\ run \in {[r \in Runs |-> ArtistRun(artist)] : artist \in RequestedArtists}
    /\ started = 0
    /\ db = EmptyDb
    /\ http = [c \in Clients |-> IdleHttp]

\* a party's request reaches the validation of a hit
BeginArtistTest(r) ==
    /\ run[r].pc = "idle" /\ ~IsSome(run[r].semantic)
    /\ started < MaxRuns
    /\ started' = started + 1
    /\ run' = [run EXCEPT ![r].pc = "C_artist"]
    /\ UNCHANGED <<catalog, db, http>>

\* Stage C: if (isValid && parsed.artist) { ... artistMatch ... }
SemanticArtistTest(r) ==
    /\ run[r].pc = "C_artist"
    /\ run' = [run EXCEPT
                 ![r].semantic = Some(SemanticArtistValid(run[r].parsed, catalog[1])),
                 ![r].pc = "D_artist"]
    /\ UNCHANGED <<catalog, started, db, http>>

\* Stage D: if (!parsed.artist) return true; ... requestedWords.some(...)
TextArtistTest(r) ==
    /\ run[r].pc = "D_artist"
    /\ run' = [run EXCEPT
                 ![r].text = Some(TextArtistMatch(run[r].parsed, catalog[1])),
                 ![r].pc = "idle"]
    /\ UNCHANGED <<catalog, started, db, http>>

NextArtist ==
    \E r \in Runs : BeginArtistTest(r) \/ SemanticArtistTest(r) \/ TextArtistTest(r)

SpecArtist == InitArtist /\ [][NextArtist]_vars

BothTested(r) == IsSome(run[r].semantic) /\ IsSome(run[r].text)

\* C21 as stated: for every pair of requested and found artist the artist
\* test of Stage D gives the verdict of the artist test of Stage C.
C21_SameArtistHeuristic ==
    \A r \in Runs :
        BothTested(r) => Val(run[r].text) = Val(run[r].semantic)

\* one of the two lower-cased artists contains the other
ArtistContained(parsed, row) ==
    \/ includes(toLowerCase(row.artist), toLowerCase(parsed.artist))
    \/ includes(toLowerCase(parsed.artist), toLowerCase(row.artist))

\* a word of the requested artist and a word of the found artist of which
\* one contains the other
SharedWord(parsed, row) ==
    \E rw \in Range(split(toLowerCase(parsed.artist))) :
        \E fw \in Range(split(toLowerCase(row.artist))) :
            includes(fw, rw) \/ includes(rw, fw)

\* C21 amended: the artist test of Stage D is the looser one: it accepts
\* every pair Stage C accepts, the two agree when no artist was requested or
\* one artist contains the other, and Stage D also accepts a pair that shares
\* a word of any length, which Stage C rejects unless a requested word longer
\* than 2 characters occurs in the found artist.
C21_TextArtistLooser ==
    \A r \in Runs :
        BothTested(r) =>
            LET parsed == run[r].parsed
                row == catalog[1]
                semantic == Val(run[r].semantic)
                text == Val(run[r].text)
            IN  /\ semantic => text
                /\ parsed.artist = <<>> \/ ArtistContained(parsed, row) =>
                      semantic /\ text
                /\ parsed.artist # <<>> /\ ~ArtistContained(parsed, row) =>
                      /\ text = SharedWord(parsed, row)
                      /\ semantic =
                            \E w \in Range(split(toLowerCase(parsed.artist))) :
                                Len(w) > 2 /\ includes(toLowerCase(row.artist), w)

\* a pair the text fallback accepts and the semantic stage rejects
C21_Witness ==
    \E r \in Runs :
        BothTested(r) /\ Val(run[r].text) /\ ~Val(run[r].semantic)

\* ------------------------------------------------------------------------
\* POST /api/chat/send: the route that calls invokeDJAgent and stores its
\* reply
\* ------------------------------------------------------------------------
\* CREATE TYPE "MessageType" AS ENUM (...)
MessageType == {"CHAT", "AI_ACCEPT", "AI_REJECT"}

Party(id, hostId) == [id |-> id, hostId |-> hostId]
ChatMessage(id, partyId, role, type) ==
    [id |-> id, partyId |-> partyId, role |-> role, type |-> type]
Song(id, partyId, addedBy, status) ==
    [id |-> id, partyId |-> partyId, addedBy |-> addedBy, status |-> status]

\* the rows of a table that belong to a party
OfParty(table, id) == {row \in table : row.partyId = id}

\* INSERT INTO "ChatMessage": the type column takes the values of the enum
\* only, and the party must exist
InsertChatMessageThrows(d, partyId, type) ==
    type \notin MessageType \/ ~\E p \in d.Party : p.id = partyId

InsertChatMessage(d, partyId, role, type) ==
    [d EXCEPT !.ChatMessage = @ \cup {ChatMessage(d.seq + 1, partyId, role, type)},
              !.seq = @ + 1]

\* INSERT INTO "Song": the party must exist (Song_partyId_fkey)
InsertSongThrows(d, partyId) == ~\E p \in d.Party : p.id = partyId

InsertSong(d, partyId, addedBy, status) ==
    [d EXCEPT !.Song = @ \cup {Song(d.seq + 1, partyId, addedBy, status)},
              !.seq = @ + 1]

\* what invokeDJAgent hands back: a type, and a song with AI_ACCEPT only
AgentResponses == {[type |-> t, song |-> (t = "AI_ACCEPT")] : t \in ResultTypes}

InitSend ==
    /\ catalog = <<>>
    /\ run = [r \in Runs |-> IdleRun]
    /\ started = 0
    /\ db = [EmptyDb EXCEPT !.Party = {Party("p1", "u1")}]
    /\ http = [c \in Clients |-> IdleHttp]

\* one step of client c's handler: its locals and the database change
Handle(c, h, d) ==
    /\ http' = [http EXCEPT ![c] = h]
    /\ db' = d
    /\ UNCHANGED <<catalog, run, started>>

\* const { partyId, senderId, content } = req.body, and the validation
SendBegin(c) ==
    /\ http[c].pc = "idle" /\ started < MaxRequests
    /\ started' = started + 1
    /\ \E partyId \in {"p1", "p9", "none"}, senderId \in {"u1", "u2"} :
          LET h == NewRequest("send_selectParty", partyId, senderId, "none")
          IN  http' = [http EXCEPT ![c] =
                          IF partyId = "none" THEN Answer(h, 400) ELSE h]
    /\ UNCHANGED <<catalog, run, db>>

\* 1. SELECT * FROM "Party" WHERE id = $1
SendSelectParty(c) ==
    /\ http[c].pc = "send_selectParty"
    /\ \/ Handle(c, Fault(http[c]), db)
       \/ Handle(c, IF \E p \in db.Party : p.id = http[c].id
                    THEN [http[c] EXCEPT !.pc = "send_selectHistory"]
                    ELSE Answer(http[c], 404), db)

\* 2. the last 20 messages of the party
SendSelectHistory(c) ==
    /\ http[c].pc = "send_selectHistory"
    /\ \/ Handle(c, Fault(http[c]), db)
       \/ Handle(c, [http[c] EXCEPT !.pc = "send_insertUserMessage"], db)

\* 3. INSERT INTO "ChatMessage" ... 'USER', 'CHAT'
SendInsertUserMessage(c) ==
    /\ http[c].pc = "send_insertUserMessage"
    /\ \/ Handle(c, Fault(http[c]), db)
       \/ IF InsertChatMessageThrows(db, http[c].id, "CHAT")
          THEN Handle(c, Answer(http[c], 500), db)
          ELSE Handle(c, [http[c] EXCEPT !.pc = "send_invokeDJAgent"],
                      InsertChatMessage(db, http[c].id, "USER", "CHAT"))

\* 4. const aiResponse = await invokeDJAgent({...})
SendInvokeDJAgent(c) ==
    /\ http[c].pc = "send_invokeDJAgent"
    /\ \E aiResponse \in AgentResponses :
          Handle(c, [http[c] EXCEPT !.pc = "send_insertAiMessage",
                                    !.arg = aiResponse.type], db)

\* SendInsertAiMessage going on to the INSERT INTO "Song" whatever the type
SendInsertAiMessage_AlwaysQueues(c) ==
    /\ http[c].pc = "send_insertAiMessage"
    /\ \/ Handle(c, Fault(http[c]), db)
       \/ IF InsertChatMessageThrows(db, http[c].id, http[c].arg)
          THEN Handle(c, Answer(http[c], 500), db)
          ELSE Handle(c, [http[c] EXCEPT !.pc = "send_insertSong"],
                      InsertChatMessage(db, http[c].id, "ASSISTANT", http[c].arg))

\* 5. INSERT INTO "ChatMessage" ... 'ASSISTANT', aiResponse.type
SendInsertAiMessage(c) ==
    /\ http[c].pc = "send_insertAiMessage"
    /\ \/ Handle(c, Fault(http[c]), db)
       \/ IF InsertChatMessageThrows(db, http[c].id, http[c].arg)
          THEN Handle(c, Answer(http[c], 500), db)
          ELSE Handle(c, [http[c] EXCEPT !.pc =
                              IF http[c].arg = "AI_ACCEPT" THEN "send_insertSong"
                              ELSE "send_selectQueue"],
                      InsertChatMessage(db, http[c].id, "ASSISTANT", http[c].arg))

\* 6. if (aiResponse.song && aiResponse.type === 'AI_ACCEPT') INSERT INTO "Song"
SendInsertSong(c) ==
    /\ http[c].pc = "send_insertSong"
    /\ \/ Handle(c, Fault(http[c]), db)
       \/ IF InsertSongThrows(db, http[c].id)
          THEN Handle(c, Answer(http[c], 500), db)
          ELSE Handle(c, [http[c] EXCEPT !.pc = "send_selectQueue"],
                      InsertSong(db, http[c].id, http[c].userId, "PENDING"))

\* 7. the updated queue, and res.json(...)
SendSelectQueue(c) ==
    /\ http[c].pc = "send_selectQueue"
    /\ \/ Handle(c, Fault(http[c]), db)
       \/ Handle(c, Answer(http[c], 200), db)

NextSend ==
    \E c \in Clients :
        \/ SendBegin(c) \/ SendSelectParty(c) \/ SendSelectHistory(c)
        \/ SendInsertUserMessage(c) \/ SendInvokeDJAgent(c)
        \/ SendInsertAiMessage(c) \/ SendInsertSong(c) \/ SendSelectQueue(c)

SpecSend == InitSend /\ [][NextSend]_vars

\* C27: every reply type invokeDJAgent returns is a MessageType value, so a
\* send request that got a reply and none of whose queries failed stores the
\* assistant message with that type and is answered 200.
C27_EveryReplyTypeStored ==
    \A c \in Clients :
        http[c].pc = "idle" /\ http[c].arg # "none" /\ ~http[c].fault =>
            /\ http[c].arg \in MessageType
            /\ http[c].status = 200
            /\ \E m \in OfParty(db.ChatMessage, http[c].id) :
                  m.role = "ASSISTANT" /\ m.type = http[c].arg

\* ------------------------------------------------------------------------
\* PATCH /api/party/:id/queue/:songId: the status of a queued song
\* ------------------------------------------------------------------------
\* const validStatuses = ['PENDING', 'PLAYING', 'PLAYED']
validStatuses == <<"PENDING", "PLAYING", "PLAYED">>

\* the status values a request body may carry
RequestedStatuses == Range(validStatuses) \cup {"SKIPPED"}

\* UPDATE "Song" SET status = $1 WHERE id = $2 AND "partyId" = $3
UpdateSongStatus(d, status, songId, partyId) ==
    [d EXCEPT !.Song =
        {IF row.id = songId /\ row.partyId = partyId
         THEN [row EXCEPT !.status = status] ELSE row : row \in @}]

\* two songs queued for party p1, as POST /api/chat/send queues them
InitQueue ==
    /\ catalog = <<>>
    /\ run = [r \in Runs |-> IdleRun]
    /\ started = 0
    /\ db = [EmptyDb EXCEPT !.Party = {Party("p1", "u1")},
                            !.Song = {Song(1, "p1", "u1", "PENDING"), Song(2, "p1", "u1", "PENDING")},
                            !.seq = 2]
    /\ http = [c \in Clients |-> IdleHttp]

\* const { id, songId } = req.params; const { status } = req.body; and the
\* validation of status
PatchBegin(c) ==
    /\ http[c].pc = "idle" /\ started < MaxRequests
    /\ started' = started + 1
    /\ \E id \in {"p1", "p9"}, songId \in {1, 2, 9}, status \in RequestedStatuses :
          LET h == [NewRequest("patch_updateSong", id, "none", status)
                       EXCEPT !.songId = songId]
          IN  http' = [http EXCEPT ![c] =
                          IF status \notin Range(validStatuses)
                          THEN Answer(h, 400) ELSE h]
    /\ UNCHANGED <<catalog, run, db>>

\* the UPDATE, then 404 when it returned no row
PatchUpdateSong(c) ==
    /\ http[c].pc = "patch_updateSong"
    /\ \/ Handle(c, Fault(http[c]), db)
       \/ IF \E row \in OfParty(db.Song, http[c].id) : row.id = http[c].songId
          THEN Handle(c, Answer(http[c], 200),
                      UpdateSongStatus(db, http[c].arg, http[c].songId, http[c].id))
          ELSE Handle(c, Answer(http[c], 404), db)

NextQueue == \E c \in Clients : PatchBegin(c) \/ PatchUpdateSong(c)

SpecQueue == InitQueue /\ [][NextQueue]_vars

\* the place of a status in the flow PENDING, PLAYING, PLAYED
StatusRank(status) ==
    CHOOSE i \in DOMAIN validStatuses : validStatuses[i] = status

\* C28: the status of a queued song follows PENDING, PLAYING, PLAYED: no
\* PATCH request moves it backwards or past PLAYING in one step.
C28_StatusFlowsForward ==
    [][\A old \in db.Song : \A new \in db'.Song :
          old.id = new.id =>
              \/ StatusRank(new.status) = StatusRank(old.status)
              \/ StatusRank(new.status) = StatusRank(old.status) + 1]_vars

\* ------------------------------------------------------------------------
\* DELETE /api/party/:id, with POST /api/party/:id/join going on beside it
\* ------------------------------------------------------------------------
User(id, email) == [id |-> id, email |-> email]
\* "PartyMember": id is the primary key, the only unique column
PartyMember(id, partyId, userId) == [id |-> id, partyId |-> partyId, userId |-> userId]

\* the rows that reference a party through a foreign key
References(d, id) ==
    [ChatMessage |-> OfParty(d.ChatMessage, id), Song |-> OfParty(d.Song, id),
     PartyMember |-> OfParty(d.PartyMember, id)]

NoReferences == [ChatMessage |-> {}, Song |-> {}, PartyMember |-> {}]

\* the host test passed by every user
IsHost_Anyone(party, userId) == TRUE

\* partyResult.rows[0].hostId !== userId
IsHost(party, userId) == party.hostId = userId

\* DELETE FROM "Party" WHERE id = $1: refused while a row references the party
DeletePartyThrows(d, id) == References(d, id) # NoReferences

\* INSERT INTO "PartyMember": the party and the user must exist
InsertPartyMemberThrows(d, partyId, userId) ==
    \/ ~\E p \in d.Party : p.id = partyId
    \/ ~\E u \in d.User : u.id = userId

\* INSERT INTO "PartyMember" ("partyId", "userId") VALUES ($1, $2)
InsertPartyMember(d, partyId, userId) ==
    [d EXCEPT !.PartyMember = @ \cup {PartyMember(d.seq + 1, partyId, userId)},
              !.seq = @ + 1]

\* SELECT * FROM "PartyMember" WHERE "partyId" = $1 AND "userId" = $2
SelectPartyMember(d, partyId, userId) ==
    {m \in d.PartyMember : m.partyId = partyId /\ m.userId = userId}

\* the parties there are at the start; a party's hostId is never updated
Parties == {Party("p1", "u1"), Party("p2", "u2")}

\* two parties, each with its host as member, a queued song and a message
SeedDb ==
         [User |-> {User("u1", "a@x"), User("u2", "b@x"), User("u3", "c@x")},
             Party |-> Parties,
             PartyMember |-> {PartyMember(5, "p1", "u1"), PartyMember(6, "p2", "u2")},
             Song |-> {Song(1, "p1", "u1", "PENDING"), Song(2, "p2", "u2", "PLAYING")},
             ChatMessage |-> {ChatMessage(3, "p1", "USER", "CHAT"),
                              ChatMessage(4, "p2", "USER", "CHAT")},
             seq |-> 6]

InitParty ==
    /\ catalog = <<>>
    /\ run = [r \in Runs |-> IdleRun]
    /\ started = 0
    /\ db = SeedDb
    /\ http = [c \in Clients |-> IdleHttp]

\* const { id } = req.params; const { userId } = req.body
DeleteBegin(c) ==
    /\ http[c].pc = "idle" /\ started < MaxRequests
    /\ started' = started + 1
    /\ \E id \in {"p1", "p9"}, userId \in {"u1", "u2"} :
          http' = [http EXCEPT ![c] = NewRequest("delete_selectParty", id, userId, "delete")]
    /\ UNCHANGED <<catalog, run, db>>

\* SELECT * FROM "Party" WHERE id = $1, then 404 or 403
DeleteSelectParty(c) ==
    /\ http[c].pc = "delete_selectParty"
    /\ \/ Handle(c, Fault(http[c]), db)
       \/ LET partyResult == {p \in db.Party : p.id = http[c].id}
          IN  IF partyResult = {} THEN Handle(c, Answer(http[c], 404), db)
              ELSE IF \E p \in partyResult : ~IsHost(p, http[c].userId)
                   THEN Handle(c, Answer(http[c], 403), db)
                   ELSE Handle(c, [http[c] EXCEPT !.pc = "delete_chatMessages"], db)

\* 1. DELETE FROM "ChatMessage" WHERE "partyId" = $1
DeleteChatMessages(c) ==
    /\ http[c].pc = "delete_chatMessages"
    /\ \/ Handle(c, Fault(http[c]), db)
       \/ Handle(c, [http[c] EXCEPT !.pc = "delete_songs"],
                 [db EXCEPT !.ChatMessage = @ \ OfParty(@, http[c].id)])

\* 2. DELETE FROM "Song" WHERE "partyId" = $1
DeleteSongs(c) ==
    /\ http[c].pc = "delete_songs"
    /\ \/ Handle(c, Fault(http[c]), db)
       \/ Handle(c, [http[c] EXCEPT !.pc = "delete_partyMembers"],
                 [db EXCEPT !.Song = @ \ OfParty(@, http[c].id)])

\* 3. DELETE FROM "PartyMember" WHERE "partyId" = $1
DeletePartyMembers(c) ==
    /\ http[c].pc = "delete_partyMembers"
    /\ \/ Handle(c, Fault(http[c]), db)
       \/ Handle(c, [http[c] EXCEPT !.pc = "delete_party"],
                 [db EXCEPT !.PartyMember = @ \ OfParty(@, http[c].id)])

\* 4. DELETE FROM "Party" WHERE id = $1, and res.json(...)
DeleteParty(c) ==
    /\ http[c].pc = "delete_party"
    /\ \/ Handle(c, Fault(http[c]), db)
       \/ IF DeletePartyThrows(db, http[c].id)
          THEN Handle(c, Answer(http[c], 500), db)
          ELSE Handle(c, Answer(http[c], 200),
                      [db EXCEPT !.Party = {p \in @ : p.id # http[c].id}])

\* the parties created since the start whose id a client has been told: the
\* id is in the 201 answer of the creation request
Announced ==
    {p.id : p \in {q \in db.Party \ Parties :
                     ~\E c \in Clients : http[c].pc = "create_insertMember"
                                         /\ http[c].id = q.id}}

\* const { id } = req.params; const { userId } = req.body
JoinBegin(c) ==
    /\ http[c].pc = "idle" /\ started < MaxRequests
    /\ started' = started + 1
    /\ \E id \in {"p1", "p9"} \cup Announced, userId \in {"u1", "u3"} :
          http' = [http EXCEPT ![c] = NewRequest("join_selectParty", id, userId, "join")]
    /\ UNCHANGED <<catalog, run, db>>

\* Check if party exists
JoinSelectParty(c) ==
    /\ http[c].pc = "join_selectParty"
    /\ \/ Handle(c, Fault(http[c]), db)
       \/ Handle(c, IF \E p \in db.Party : p.id = http[c].id
                    THEN [http[c] EXCEPT !.pc = "join_selectMember"]
                    ELSE Answer(http[c], 404), db)

\* Check if already joined
JoinSelectMember(c) ==
    /\ http[c].pc = "join_selectMember"
    /\ \/ Handle(c, Fault(http[c]), db)
       \/ Handle(c, IF SelectPartyMember(db, http[c].id, http[c].userId) # {}
                    THEN Answer(http[c], 200)
                    ELSE [http[c] EXCEPT !.pc = "join_insertMember"], db)

\* Add user to party
JoinInsertMember(c) ==
    /\ http[c].pc = "join_insertMember"
    /\ \/ Handle(c, Fault(http[c]), db)
       \/ IF InsertPartyMemberThrows(db, http[c].id, http[c].userId)
          THEN Handle(c, Answer(http[c], 500), db)
          ELSE Handle(c, Answer(http[c], 200),
                      InsertPartyMember(db, http[c].id, http[c].userId))

NextParty ==
    \E c \in Clients :
        \/ DeleteBegin(c) \/ DeleteSelectParty(c) \/ DeleteChatMessages(c)
        \/ DeleteSongs(c) \/ DeletePartyMembers(c) \/ DeleteParty(c)
        \/ JoinBegin(c) \/ JoinSelectParty(c) \/ JoinSelectMember(c)
        \/ JoinInsertMember(c)

SpecParty == InitParty /\ [][NextParty]_vars

\* client c, serving a delete request, finishes it with this step
DeleteAnswered(c) ==
    http[c].arg = "delete" /\ http[c].pc # "idle" /\ http'[c].pc = "idle"

\* the delete request of client c comes from the host of its party
ByHost(c) == \E p \in Parties : p.id = http[c].id /\ p.hostId = http[c].userId

\* the party of client c's request and every row referencing it are gone
\* after the step
PartyGone(c) ==
    /\ ~\E p \in db'.Party : p.id = http[c].id
    /\ References(db', http[c].id) = NoReferences

\* a row disappears only in a delete request of the host of the row's party,
\* and only a row of that party
OnlyHostDeletes ==
    \/ /\ db.Party \subseteq db'.Party /\ db.PartyMember \subseteq db'.PartyMember
       /\ db.Song \subseteq db'.Song /\ db.ChatMessage \subseteq db'.ChatMessage
       /\ db.User \subseteq db'.User
    \/ \E c \in Clients :
          /\ http[c].arg = "delete" /\ http[c].pc # "idle" /\ ByHost(c)
          /\ db.User \subseteq db'.User
          /\ \A p \in db.Party \ db'.Party : p.id = http[c].id
          /\ \A row \in (db.PartyMember \ db'.PartyMember) : row.partyId = http[c].id
          /\ \A row \in (db.Song \ db'.Song) : row.partyId = http[c].id
          /\ \A row \in (db.ChatMessage \ db'.ChatMessage) : row.partyId = http[c].id

\* a party that is not there is answered 404 and a user who is not the host
\* 403, unless the lookup fails
RefusedUnlessHost ==
    \A c \in Clients :
        /\ DeleteAnswered(c) /\ ~http'[c].fault /\ ~ByHost(c) =>
              /\ http[c].pc = "delete_selectParty" /\ db' = db
              /\ http'[c].status =
                    IF \E p \in db.Party : p.id = http[c].id THEN 403 ELSE 404
        /\ DeleteAnswered(c) /\ http'[c].status = 404 =>
              /\ ~\E p \in db.Party : p.id = http[c].id
              /\ db' = db

Emails == {"a@x", "b@x"}

\* SELECT * FROM "User" WHERE email = $1
SelectUserByEmail(d, email) == {u \in d.User : u.email = email}

\* an INSERT that no constraint refuses
InsertUserThrows_NoUnique(d, email) == FALSE

\* INSERT INTO "User": email text NOT NULL UNIQUE
InsertUserThrows(d, email) == SelectUserByEmail(d, email) # {}

InsertUser(d, email) ==
    [d EXCEPT !.User = @ \cup {User(d.seq + 1, email)}, !.seq = @ + 1]

\* one account, for a@x
InitSignup ==
    /\ catalog = <<>>
    /\ run = [r \in Runs |-> IdleRun]
    /\ started = 0
    /\ db = [EmptyDb EXCEPT !.User = {User(1, "a@x")}, !.seq = 1]
    /\ http = [c \in Clients |-> IdleHttp]

\* const { email, password, name, avatarUrl } = req.body
SignupBegin(c) ==
    /\ http[c].pc = "idle" /\ started < MaxRequests
    /\ started' = started + 1
    /\ \E email \in Emails :
          http' = [http EXCEPT ![c] = NewRequest("signup_select", email, "none", "signup")]
    /\ UNCHANGED <<catalog, run, db>>

\* Check if user exists
SignupSelectUser(c) ==
    /\ http[c].pc = "signup_select"
    /\ \/ Handle(c, Fault(http[c]), db)
       \/ Handle(c, IF SelectUserByEmail(db, http[c].id) # {}
                    THEN Answer(http[c], 400)
                    ELSE [http[c] EXCEPT !.pc = "signup_insert"], db)

\* Create user with avatar
SignupInsertUser(c) ==
    /\ http[c].pc = "signup_insert"
    /\ \/ Handle(c, Fault(http[c]), db)
       \/ IF InsertUserThrows(db, http[c].id)
          THEN Handle(c, Answer(http[c], 500), db)
          ELSE Handle(c, Answer(http[c], 201), InsertUser(db, http[c].id))

NextSignup ==
    \E c \in Clients : SignupBegin(c) \/ SignupSelectUser(c) \/ SignupInsertUser(c)

SpecSignup == InitSignup /\ [][NextSignup]_vars

\* client c, serving a signup, finishes it with this step
SignupAnswered(c) ==
    http[c].arg = "signup" /\ http[c].pc # "idle" /\ http'[c].pc = "idle"

\* at most one User row per email
OneRowPerEmail == \A u, v \in db.User : u.email = v.email => u = v

InitFair ==
    /\ catalog \in {seed \in SeedCatalogs : Len(seed) <= 3}
    /\ run = [r \in Runs |-> IdleRun]
    /\ started = 0
    /\ db = EmptyDb
    /\ http = [c \in Clients |-> IdleHttp]

SpecFair == InitFair /\ [][Next]_vars /\ \A r \in Runs : WF_vars(Pipeline(r))

Outcomes == {"NotARequest", "NeedsDisambiguation", "NotFound", "Resolved", "Rejected"}

SuggestionCalls == {"S_searchSongsByText", "S_getSongsByMood"}

\* the run ended in the catch block of invokeDJAgent
Fallback(s) ==
    \/ s.extraction = "null"
    \/ LastCall(s) = "generateResponse" /\ s.lastFailed

\* what the run hands its caller: the branch it returned from, or the
\* fallback of the catch block
Terminal(s) == IF Fallback(s) THEN "Fallback" ELSE s.outcome

\* the result each terminal outcome comes with
TerminalResult(s) ==
    LET res == Val(s.result)
    IN  CASE Terminal(s) = "NotARequest" ->
                 res.type = "CHAT" /\ res.options = <<>> /\ s.vibeCheck = None
          [] Terminal(s) = "NeedsDisambiguation" ->
                 res.type = "CHAT" /\ Len(res.options) > 1 /\ s.song = None
          [] Terminal(s) = "NotFound" ->
                 res.type \in {"CHAT", "AI_DENY"} /\ res.song = None
          [] Terminal(s) = "Resolved" ->
                 /\ res.type = "AI_ACCEPT" /\ IsSome(s.song)
                 /\ IsSome(s.vibeCheck) /\ Val(s.vibeCheck).matches
          [] Terminal(s) = "Rejected" ->
                 /\ res.type = "AI_DENY" /\ IsSome(s.song)
                 /\ IsSome(s.vibeCheck) /\ ~Val(s.vibeCheck).matches
          [] Terminal(s) = "Fallback" -> res.type = "CHAT" /\ res.song = None
          [] OTHER -> FALSE

\* validation is reached only with a candidate, suggestion only after a
\* failed validation, and the branch a run has taken is not left again
StateMachine ==
    \A r \in Runs :
        /\ IsSome(run[r].vibeCheck) => IsSome(run[r].song) \/ IsSome(run[r].yt)
        /\ LastCall(run[r]) = "checkVibeMatch" /\ run[r].outcome # "NotFound" =>
              IsSome(run[r].song)
        /\ \/ run[r].pc \in SuggestionCalls
           \/ Range(run[r].log) \cap SuggestionCalls # {}
           \/ run[r].suggestions # <<>>
           => /\ IsSome(run[r].vibeCheck) /\ ~Val(run[r].vibeCheck).matches
              /\ run[r].outcome = "Rejected"
        /\ run[r].outcome \in Outcomes \cup {"none"}

OutcomeKept ==
    \A r \in Runs :
        run[r].outcome # "none" /\ run'[r].pc # "idle" =>
            run'[r].outcome = run[r].outcome

Terminates == \A r \in Runs : (run[r].pc # "idle") ~> (run[r].pc = "done")

PoolCatalogs ==
    { <<Row(1, Bob, Ade, 2020, Some(<<sad>>), TRUE)>>,
      <<Row(1, Bob, Ade, 2020, Some(<<sad>>), TRUE),
        Row(2, Sun, Bob, 2020, Some(<<happy>>), TRUE)>> }

InitPool ==
    /\ catalog \in PoolCatalogs
    /\ run = [r \in Runs |-> IdleRun]
    /\ started = 0
    /\ db = EmptyDb
    /\ http = [c \in Clients |-> IdleHttp]

SpecPool == InitPool /\ [][Next]_vars

\* the entry is by the requested artist
ByRequestedArtist(s, row) == Like(row.artist, s.parsed.artist)

\* C32: every entry the artist-only stage auto-resolves or offers as an
\* option, and every same-artist alternative offered after a rejection, has
\* an artist that contains the requested artist name, case-insensitively.
C32_ArtistPoolByArtist ==
    \A r \in Runs :
        /\ run[r].foundBy = "B" /\ IsSome(run[r].song) =>
              ByRequestedArtist(run[r], Val(run[r].song))
        /\ run[r].outcome = "NeedsDisambiguation" /\ IsSome(run[r].result) =>
              \A i \in DOMAIN Val(run[r].result).options :
                  ByRequestedArtist(run[r], Val(run[r].result).options[i])
        /\ "S_searchSongsByText" \in Range(run[r].log)
           /\ "S_getSongsByMood" \notin Range(run[r].log) =>
              \A i \in DOMAIN run[r].suggestions :
                  ByRequestedArtist(run[r], run[r].suggestions[i])

\* ------------------------------------------------------------------------
\* checkVibeMatch on entries and rule sets with all their fields
\* ------------------------------------------------------------------------
\* a catalog entry with the fields checkVibeMatch does not read
FullSong(artist, year, mood, unread) ==
    [id |-> 1, title |-> Sun, artist |-> artist, year |-> year, mood |-> mood,
     emb |-> FALSE, genre |-> unread.genre, energy |-> unread.energy,
     explicit |-> unread.explicit]

UnreadOfSong ==
    { [genre |-> "pop", energy |-> 3, explicit |-> FALSE],
      [genre |-> "metal", energy |-> 9, explicit |-> TRUE] }

FullSongs ==
    {FullSong(artist, year, mood, unread) :
        artist \in {Ade, Bob}, year \in {1975, 2020},
        mood \in {Some(<<sad>>), Some(<<happy>>)}, unread \in UnreadOfSong}

\* a rule set as the rule generator writes it
FullRules(read, unread) ==
    Some([blockedMoods |-> read.blockedMoods, allowedMoods |-> read.allowedMoods,
          allowedEras |-> read.allowedEras, blockedArtists |-> read.blockedArtists,
          allowedGenres |-> unread.allowedGenres, blockedGenres |-> unread.blockedGenres,
          energyRange |-> unread.energyRange, explicitAllowed |-> unread.explicitAllowed,
          priorityArtists |-> unread.priorityArtists, customRules |-> unread.customRules])

UnreadOfRules ==
    { [allowedGenres |-> <<"pop">>, blockedGenres |-> <<"metal">>,
       energyRange |-> [min |-> 1, max |-> 5], explicitAllowed |-> FALSE,
       priorityArtists |-> <<Bob>>, customRules |-> <<"no metal">>],
      [allowedGenres |-> <<"metal">>, blockedGenres |-> <<>>,
       energyRange |-> [min |-> 1, max |-> 10], explicitAllowed |-> TRUE,
       priorityArtists |-> <<>>, customRules |-> <<>>] }

FullRuleSets ==
    {FullRules(Val(read), unread) :
        read \in {Rules(Some(<<Sad>>), None, None, None),
                  Rules(None, Some(<<happy>>), Era(2000, 0), None),
                  Rules(None, None, Era(0, 2000), Some(<<ade>>))},
        unread \in UnreadOfRules}

\* each party has its own entry and its own rule set
InitFrame ==
    /\ catalog = <<>>
    /\ run \in [Runs -> {[IdleRun EXCEPT !.song = Some(song), !.vibeRules = vibeRules] :
                            song \in FullSongs, vibeRules \in FullRuleSets}]
    /\ started = 0
    /\ db = EmptyDb
    /\ http = [c \in Clients |-> IdleHttp]

\* const vibeCheck = checkVibeMatch(song, vibeRules)
EvaluateSong(r) ==
    /\ run[r].pc = "checkVibeMatch"
    /\ run' = [run EXCEPT ![r].vibeCheck =
                              Some(checkVibeMatch(Val(run[r].song), run[r].vibeRules)),
                          ![r].pc = "idle"]
    /\ UNCHANGED <<catalog, started, db, http>>

NextFrame == \E r \in Runs : BeginCheck(r) \/ EvaluateSong(r)

SpecFrame == InitFrame /\ [][NextFrame]_vars

\* what checkVibeMatch may depend on
ReadOfSong(song) == <<song.mood, song.year, song.artist>>

ReadOfRules(rules) ==
    <<rules.blockedMoods, rules.allowedMoods, rules.allowedEras, rules.blockedArtists>>

\* C33: two entries that agree on mood, year and artist, checked against two
\* rule sets that agree on blockedMoods, allowedMoods, allowedEras and
\* blockedArtists, get the same result, whatever their genre, energy and
\* explicit flag and whatever the other fields of the rule sets.
C33_DependsOnlyOnReadFields ==
    \A r1, r2 \in Runs :
        /\ Evaluated(r1) /\ Evaluated(r2)
        /\ ReadOfSong(Val(run[r1].song)) = ReadOfSong(Val(run[r2].song))
        /\ ReadOfRules(Val(run[r1].vibeRules)) = ReadOfRules(Val(run[r2].vibeRules))
        => run[r1].vibeCheck = run[r2].vibeCheck

\* an explicit metal song under a rule set that allows no explicit songs and
\* its pop twin under a rule set that allows them, both refused for the year
C33_Witness ==
    /\ Evaluated("p1") /\ Evaluated("p2")
    /\ ReadOfSong(Val(run["p1"].song)) = ReadOfSong(Val(run["p2"].song))
    /\ ReadOfRules(Val(run["p1"].vibeRules)) = ReadOfRules(Val(run["p2"].vibeRules))
    /\ Val(run["p1"].song).explicit /\ ~Val(run["p2"].song).explicit
    /\ ~Val(run["p1"].vibeRules).explicitAllowed
    /\ Val(run["p2"].vibeRules).explicitAllowed
    /\ ~Val(run["p1"].vibeCheck).matches
    /\ Val(run["p1"].vibeCheck).reason = "Song is from year, but party requires min+"

\* ------------------------------------------------------------------------
\* The result object of invokeDJAgent
\* ------------------------------------------------------------------------
\* C34: in every result invokeDJAgent returns, song is non-null exactly when
\* the type is AI_ACCEPT; the results of a run that found nothing, rejected
\* its candidate, asked which song was meant or fell back after an error
\* carry song = null.
C34_SongIffAccept ==
    \A r \in Runs :
        IsSome(run[r].result) =>
            LET res == Val(run[r].result)
            IN  /\ IsSome(res.song) <=> res.type = "AI_ACCEPT"
                /\ \/ run[r].outcome \in {"NotARequest", "NotFound", "Rejected",
                                          "NeedsDisambiguation", "none"}
                   \/ Fallback(run[r])
                   => res.song = None /\ res.type \in {"CHAT", "AI_DENY"}
                /\ res.type = "AI_ACCEPT" =>
                      res.song = Accepted(Val(run[r].song))

\* a run that rejected its candidate: the run holds the song, the result
\* does not
C34_Witness ==
    \E r \in Runs :
        /\ run[r].pc = "done" /\ run[r].outcome = "Rejected" /\ ~Fallback(run[r])
        /\ IsSome(run[r].song) /\ HasResult(run[r], "AI_DENY")
        /\ Val(run[r].result).song = None
        /\ IsSome(Val(run[r].result).suggestion)

\* ------------------------------------------------------------------------
\* The alternatives of a rejected candidate
\* ------------------------------------------------------------------------
\* the fields of a catalog row that the INSERT of addSongToCatalog copies
\* from the candidate; a row is the candidate's entry when they agree
SameEntry(row, song) ==
    /\ row.title = song.title /\ row.artist = song.artist
    /\ row.year = song.year /\ row.mood = song.mood

\* the alternatives a run holds: the suggestions list, and the suggestion
\* field of its result
Alternatives(s) ==
    Range(s.suggestions)
    \cup (IF IsSome(s.result) /\ IsSome(Val(s.result).suggestion)
          THEN {Val(Val(s.result).suggestion)} ELSE {})

\* C35: in a run that ends Rejected no alternative is the rejected candidate:
\* not the catalog row that was the candidate, nor the row inserted for the
\* discovery hit that was the candidate.
C35_CandidateNotSuggested ==
    \A r \in Runs :
        run[r].outcome = "Rejected" /\ IsSome(run[r].song) =>
            \A alt \in Alternatives(run[r]) :
                /\ ~SameEntry(alt, Val(run[r].song))
                /\ run[r].source # "youtube" => alt.id # Val(run[r].song).id

\* a discovery hit that was inserted and then rejected, with an alternative
\* by an artist that the same artist query also finds the inserted row by
C35_Witness ==
    \E r \in Runs :
        /\ run[r].pc = "done" /\ run[r].outcome = "Rejected"
        /\ run[r].source = "youtube" /\ run[r].inserted = 1
        /\ Count(run[r].log, "S_searchSongsByText") = 1
        /\ Like(Val(run[r].song).artist, run[r].parsed.artist)
        /\ HasResult(run[r], "AI_DENY")
        /\ IsSome(Val(run[r].result).suggestion)

\* ------------------------------------------------------------------------
\* Discovery, classification and the catalog insert of one run
\* ------------------------------------------------------------------------
\* the number of calls a run made among `calls`
CallsOf(s, calls) == Cardinality({i \in DOMAIN s.log : s.log[i] \in calls})

YouTubeCalls == {"B_searchYouTube", "E_searchYouTube"}

AnalyzeCalls == {"B_analyzeSong", "E_analyzeSong"}

\* C36: a run calls searchYouTube, analyzeSong and addSongToCatalog at most
\* once each, whether discovery happens in the artist-only stage or in
\* Step 3.
C36_DiscoveryAtMostOnce ==
    \A r \in Runs :
        /\ CallsOf(run[r], YouTubeCalls) <= 1
        /\ CallsOf(run[r], AnalyzeCalls) <= 1
        /\ CallsOf(run[r], AddCalls) <= 1

\* a run that discovered its song in the artist-only stage, went on through
\* the remaining stages and was answered
C36_Witness ==
    \E r \in Runs :
        /\ run[r].pc = "done" /\ IsSome(run[r].result)
        /\ "B_addSongToCatalog" \in Range(run[r].log)
        /\ "checkVibeMatch" \in Range(run[r].log)
        /\ LastCall(run[r]) = "generateResponse"
        /\ CallsOf(run[r], YouTubeCalls) = 1
        /\ CallsOf(run[r], AnalyzeCalls) = 1
        /\ CallsOf(run[r], AddCalls) = 1

\* ------------------------------------------------------------------------
\* The queue effect of POST /api/chat/send
\* ------------------------------------------------------------------------
\* the step is one of client c's handler
Moved(c) == http'[c] # http[c]

\* the "Song" rows a step appends
Appended == db'.Song \ db.Song

\* "Song" changes only by the INSERT of step 6, made by a handler whose reply
\* is AI_ACCEPT: one PENDING row of the party, addedBy the sender
AppendsOnlyOnAccept ==
    db'.Song # db.Song =>
        \E c \in Clients :
            /\ Moved(c) /\ http[c].pc = "send_insertSong"
            /\ http[c].arg = "AI_ACCEPT"
            /\ http'[c].pc = "send_selectQueue"
            /\ db.Song \subseteq db'.Song
            /\ Appended = {Song(db'.seq, http[c].id, http[c].userId, "PENDING")}

\* step 6 is entered from step 5 only, with an AI_ACCEPT reply
OncePerSend ==
    \A c \in Clients :
        Moved(c) /\ http'[c].pc = "send_insertSong" =>
            http[c].pc = "send_insertAiMessage" /\ http[c].arg = "AI_ACCEPT"

\* a handler whose reply is AI_ACCEPT goes from step 5 to step 6, and step 6
\* appends
AcceptAppends(c) ==
    http[c].arg = "AI_ACCEPT" /\ Moved(c) =>
        /\ http[c].pc = "send_insertAiMessage" => http'[c].pc = "send_insertSong"
        /\ http[c].pc = "send_insertSong" => Appended # {}

\* C37: POST /api/chat/send appends a Song row (PENDING, addedBy the sender)
\* if and only if the reply is AI_ACCEPT with a song; CHAT and AI_DENY leave
\* the queue unchanged; at most one row per send.
C37_QueuedIffAccepted ==
    [][AppendsOnlyOnAccept /\ OncePerSend /\ \A c \in Clients : AcceptAppends(c)]_vars

\* C37 amended: a row is appended only for an AI_ACCEPT reply, at most one
\* per send, PENDING and addedBy the sender; an AI_ACCEPT reply is followed
\* by the row unless the INSERT of the assistant message or the INSERT of
\* the song fails, and then the send is answered 500 with no row appended.
C37_QueuedOnlyOnAcceptUnlessQueryFails ==
    [][/\ AppendsOnlyOnAccept
       /\ OncePerSend
       /\ \A c \in Clients :
             IF http'[c].fault /\ ~http[c].fault
             THEN http'[c].status = 500 /\ Appended = {}
             ELSE AcceptAppends(c)]_vars

\* one send answered 200 for an AI_ACCEPT reply, its row in the queue, and
\* one send answered 200 for a CHAT reply that appended nothing
C37_Witness ==
    \E c1, c2 \in Clients :
        /\ http[c1].pc = "idle" /\ http[c1].status = 200
        /\ http[c1].arg = "AI_ACCEPT"
        /\ http[c2].pc = "idle" /\ http[c2].status = 200
        /\ http[c2].arg = "CHAT"
        /\ \E id \in 1..db.seq :
              db.Song = {Song(id, http[c1].id, http[c1].userId, "PENDING")}

\* ------------------------------------------------------------------------
\* POST /api/party (creation) with POST /api/party/:id/join beside it
\* ------------------------------------------------------------------------
\* the ids gen_random_uuid() gives to new parties, in order
PartyIds == <<"p3", "p4", "p5", "p6">>

NewPartyId(d) ==
    PartyIds[CHOOSE i \in DOMAIN PartyIds :
                /\ ~\E p \in d.Party : p.id = PartyIds[i]
                /\ \A j \in 1..(i - 1) : \E p \in d.Party : p.id = PartyIds[j]]

\* const { hostId, name, vibeDescription } = req.body, and the validation
CreateBegin(c) ==
    /\ http[c].pc = "idle" /\ started < MaxRequests
    /\ started' = started + 1
    /\ \E hostId \in {"u1", "u9", "none"} :
          LET h == NewRequest("create_extractVibeRules", "none", hostId, "create")
          IN  http' = [http EXCEPT ![c] =
                          IF hostId = "none" THEN Answer(h, 400) ELSE h]
    /\ UNCHANGED <<catalog, run, db>>

\* const vibeRules = await extractVibeRules(vibeDescription): never throws
CreateExtractVibeRules(c) ==
    /\ http[c].pc = "create_extractVibeRules"
    /\ Handle(c, [http[c] EXCEPT !.pc = "create_insertParty"], db)

\* INSERT INTO "Party" ... RETURNING *
CreateInsertParty(c) ==
    /\ http[c].pc = "create_insertParty"
    /\ \/ Handle(c, Fault(http[c]), db)
       \/ Handle(c, [http[c] EXCEPT !.pc = "create_insertMember",
                                    !.id = NewPartyId(db)],
                 [db EXCEPT !.Party = @ \cup {Party(NewPartyId(db), http[c].userId)}])

\* Auto-add host as party member, and res.status(201)
CreateInsertMember(c) ==
    /\ http[c].pc = "create_insertMember"
    /\ \/ Handle(c, Fault(http[c]), db)
       \/ IF InsertPartyMemberThrows(db, http[c].id, http[c].userId)
          THEN Handle(c, Answer(http[c], 500), db)
          ELSE Handle(c, Answer(http[c], 201),
                      InsertPartyMember(db, http[c].id, http[c].userId))

NextMember ==
    \E c \in Clients :
        \/ CreateBegin(c) \/ CreateExtractVibeRules(c) \/ CreateInsertParty(c)
        \/ CreateInsertMember(c)
        \/ JoinBegin(c) \/ JoinSelectParty(c) \/ JoinSelectMember(c)
        \/ JoinInsertMember(c)

SpecMember == InitParty /\ [][NextMember]_vars

\* C38: there is at most one PartyMember row per (party, user) pair.
C38_OneRowPerMember ==
    \A m1, m2 \in db.PartyMember :
        m1.partyId = m2.partyId /\ m1.userId = m2.userId => m1 = m2

\* ------------------------------------------------------------------------
\* DELETE /api/party/:id beside chat sends, queue adds and joins
\* ------------------------------------------------------------------------
\* POST /api/party/:id/queue: const { id } = req.params, the body, and the
\* validation
QueueAddBegin(c) ==
    /\ http[c].pc = "idle" /\ started < MaxRequests
    /\ started' = started + 1
    /\ \E id \in {"p1", "p9"}, addedBy \in {"u3", "none"} :
          LET h == NewRequest("queue_insertSong", id, addedBy, "queue")
          IN  http' = [http EXCEPT ![c] =
                          IF addedBy = "none" THEN Answer(h, 400) ELSE h]
    /\ UNCHANGED <<catalog, run, db>>

\* Insert song into queue, and res.status(201)
QueueAddInsertSong(c) ==
    /\ http[c].pc = "queue_insertSong"
    /\ \/ Handle(c, Fault(http[c]), db)
       \/ IF InsertSongThrows(db, http[c].id)
          THEN Handle(c, Answer(http[c], 500), db)
          ELSE Handle(c, Answer(http[c], 201),
                      InsertSong(db, http[c].id, http[c].userId, "PENDING"))

NextDelete ==
    \E c \in Clients :
        \/ DeleteBegin(c) \/ DeleteSelectParty(c) \/ DeleteChatMessages(c)
        \/ DeleteSongs(c) \/ DeletePartyMembers(c) \/ DeleteParty(c)
        \/ JoinBegin(c) \/ JoinSelectParty(c) \/ JoinSelectMember(c)
        \/ JoinInsertMember(c)
        \/ QueueAddBegin(c) \/ QueueAddInsertSong(c)
        \/ SendBegin(c) \/ SendSelectParty(c) \/ SendSelectHistory(c)
        \/ SendInsertUserMessage(c) \/ SendInvokeDJAgent(c)
        \/ SendInsertAiMessage(c) \/ SendInsertSong(c) \/ SendSelectQueue(c)

SpecDelete == InitParty /\ [][NextDelete]_vars

\* a delete request for the party is being served
DeleteInFlight(id) ==
    \E c \in Clients :
        http[c].arg = "delete" /\ http[c].pc # "idle" /\ http[c].id = id

\* every row that referenced the party at the start is still there
SeedRowsKept(id) ==
    /\ References(SeedDb, id).ChatMessage \subseteq db.ChatMessage
    /\ References(SeedDb, id).Song \subseteq db.Song
    /\ References(SeedDb, id).PartyMember \subseteq db.PartyMember

\* C39: deletion by the host is all-or-nothing under interleaving: no state
\* has a deleted party with rows still referencing it, and once no delete
\* request for a party is being served the party is either gone or has
\* kept every row it had.
C39_DeleteAllOrNothing ==
    \A p \in Parties :
        /\ p \notin db.Party => References(db, p.id) = NoReferences
        /\ p \in db.Party /\ ~DeleteInFlight(p.id) => SeedRowsKept(p.id)

====
